---- MODULE Spec2Model ----
(***************************************************************************)
(* Model of the CP-SAT schedule solver of src/solver/solver.py.            *)
(*                                                                         *)
(* build_and_solve builds a constraint model from a SolveRequest and hands *)
(* it to the CP-SAT engine, first with hard coverage and then, when that   *)
(* fails or is skipped, with soft coverage.  The engine is opaque: with a  *)
(* 45 s budget it answers OPTIMAL or FEASIBLE with some assignment that    *)
(* satisfies every constraint of the model, or it answers without one.     *)
(* The model below keeps the request, the engine's search (the ABA         *)
(* sessions it has switched on so far) and the response.  Times are        *)
(* <<hour, minute>> pairs, the "HH:MM" strings of the source.              *)
(***************************************************************************)
EXTENDS Integers, Sequences, FiniteSets, TLC

VARIABLES req, pc, hard_coverage, model, aba, attempts, solver_status, resp, first_resp

vars == <<req, pc, hard_coverage, model, aba, attempts, solver_status, resp, first_resp>>

----------------------------------------------------------------------------
(* Program constants *)

SLOT_SIZE == 15

LUNCH_SLOTS == 2

MAX_SESSIONS_PER_PAIR == 2

MAX_NOTES_PER_THERAPIST == 4

NO_MAX_PROVIDERS == 999

NO_MAX_WEEKLY == 999999

DEFAULT_MIN_DURATION == 60

DEFAULT_MAX_DURATION == 180

UNKNOWN_RANK == -1

INELIGIBLE_TIER == 99

COVERAGE_GAP_WEIGHT == 100000

BALANCE_WEIGHT == 10

NOTE_WEIGHT == 500

(* Bound of the model: the length of the operating day, in 15-minute slots. *)
GridSlots == 7

----------------------------------------------------------------------------
(* Small helpers *)

None == "None"

Max2(a, b) == IF a >= b THEN a ELSE b

Min2(a, b) == IF a <= b THEN a ELSE b

(* Python's -(-x // n): the ceiling of x / n *)
CeilDiv(x, n) == -((-x) \div n)

RECURSIVE SumSeq(_)
SumSeq(s) == IF s = <<>> THEN 0 ELSE Head(s) + SumSeq(Tail(s))

Range(s) == {s[i] : i \in DOMAIN s}

RECURSIVE SumFn(_)
SumFn(f) ==
    IF DOMAIN f = {} THEN 0
    ELSE LET x == CHOOSE y \in DOMAIN f : TRUE
         IN f[x] + SumFn([y \in DOMAIN f \ {x} |-> f[y]])

----------------------------------------------------------------------------
(* Time grid *)

time_to_minutes(t) == t[1] * 60 + t[2]

minutes_to_time(mins) == <<mins \div 60, mins % 60>>

slot_to_time(slot, op_start_min) == minutes_to_time(op_start_min + slot * SLOT_SIZE)

time_to_slot(t, op_start_min) == (time_to_minutes(t) - op_start_min) \div SLOT_SIZE

op_start(r) == time_to_minutes(r.config.operatingHoursStart)

op_end(r) == time_to_minutes(r.config.operatingHoursEnd)

num_slots(r) == (op_end(r) - op_start(r)) \div SLOT_SIZE

num_c(r) == Len(r.clients)

num_t(r) == Len(r.therapists)

is_weekend(r) == r.day \in {"Saturday", "Sunday"}

----------------------------------------------------------------------------
(* Insurance helpers.  An optional number is a set: {} is None, {v} is v.  *)
(* maxHoursPerWeek is a fraction <<numerator, denominator>> of hours.      *)

RECURSIVE FirstRank(_, _)
FirstRank(role, iqs) ==
    IF iqs = <<>> THEN {}
    ELSE IF Head(iqs).id = role /\ Head(iqs).roleHierarchyOrder # {}
         THEN Head(iqs).roleHierarchyOrder
         ELSE FirstRank(role, Tail(iqs))

get_role_rank(role, iqs, default_ranks) ==
    IF FirstRank(role, iqs) # {}
    THEN CHOOSE v \in FirstRank(role, iqs) : TRUE
    ELSE IF role \in DOMAIN default_ranks THEN default_ranks[role] ELSE UNKNOWN_RANK

meets_requirement(t, req_id, iqs, default_ranks) ==
    \/ req_id \in Range(t.qualifications)
    \/ /\ get_role_rank(t.role, iqs, default_ranks) >= get_role_rank(req_id, iqs, default_ranks)
       /\ get_role_rank(req_id, iqs, default_ranks) # UNKNOWN_RANK
    \/ t.role = req_id

meets_insurance(t, c, iqs, default_ranks) ==
    \A i \in DOMAIN c.insuranceRequirements :
        meets_requirement(t, c.insuranceRequirements[i], iqs, default_ranks)

(* The qualifications a client's requirements name, one per (requirement, *)
(* qualification) match, in the order the loops of the source visit them. *)
RECURSIVE MatchQuals(_, _, _, _)
MatchQuals(reqs, iqs, i, j) ==
    IF i > Len(reqs) THEN <<>>
    ELSE IF j > Len(iqs) THEN MatchQuals(reqs, iqs, i + 1, 1)
    ELSE (IF iqs[j].id = reqs[i] THEN <<iqs[j]>> ELSE <<>>)
         \o MatchQuals(reqs, iqs, i, j + 1)

ClientQuals(c, iqs) == MatchQuals(c.insuranceRequirements, iqs, 1, 1)

RECURSIVE FoldMaxProviders(_, _)
FoldMaxProviders(qs, max_p) ==
    IF qs = <<>> THEN max_p
    ELSE FoldMaxProviders(Tail(qs),
            IF Head(qs).maxTherapistsPerDay # {}
            THEN Min2(max_p, CHOOSE v \in Head(qs).maxTherapistsPerDay : TRUE)
            ELSE max_p)

get_max_providers(c, iqs) == FoldMaxProviders(ClientQuals(c, iqs), NO_MAX_PROVIDERS)

RECURSIVE FoldMinDuration(_, _, _)
FoldMinDuration(qs, min_dur, found_custom) ==
    IF qs = <<>> THEN min_dur
    ELSE LET m == Head(qs).minSessionDurationMinutes
             v == CHOOSE x \in m : TRUE
         IN IF m # {} /\ v > 0 /\ (~found_custom \/ v > min_dur)
            THEN FoldMinDuration(Tail(qs), v, TRUE)
            ELSE FoldMinDuration(Tail(qs), min_dur, found_custom)

get_min_duration_minutes(c, iqs) ==
    FoldMinDuration(ClientQuals(c, iqs), DEFAULT_MIN_DURATION, FALSE)

RECURSIVE FoldMaxDuration(_, _, _)
FoldMaxDuration(qs, max_dur, found_custom) ==
    IF qs = <<>> THEN max_dur
    ELSE LET m == Head(qs).maxSessionDurationMinutes
             v == CHOOSE x \in m : TRUE
         IN IF m # {} /\ v > 0 /\ (~found_custom \/ v < max_dur)
            THEN FoldMaxDuration(Tail(qs), v, TRUE)
            ELSE FoldMaxDuration(Tail(qs), max_dur, found_custom)

get_max_duration_minutes(c, iqs) ==
    FoldMaxDuration(ClientQuals(c, iqs), DEFAULT_MAX_DURATION, FALSE)

RECURSIVE FoldMaxWeekly(_, _)
FoldMaxWeekly(qs, max_m) ==
    IF qs = <<>> THEN max_m
    ELSE LET h == Head(qs).maxHoursPerWeek
             v == CHOOSE x \in h : TRUE
         IN FoldMaxWeekly(Tail(qs),
                IF h # {} THEN Min2(max_m, (v[1] * 60) \div v[2]) ELSE max_m)

get_max_weekly_minutes(c, iqs) == FoldMaxWeekly(ClientQuals(c, iqs), NO_MAX_WEEKLY)

----------------------------------------------------------------------------
(* Eligibility and team tiers *)

(* faulty variant: a cross-team BT is ranked like any cross-team therapist *)
team_tier_lenient(t_role, t_team, c_team) ==
    IF c_team = None THEN 0
    ELSE LET same == IF t_team # None THEN t_team = c_team ELSE FALSE
             is_bcba == t_role = "BCBA"
         IN IF same /\ ~is_bcba THEN 0
            ELSE IF ~same /\ ~is_bcba THEN 1
                 ELSE IF same /\ is_bcba THEN 2 ELSE 3

_team_tier(t_role, t_team, c_team) ==
    IF c_team = None THEN 0
    ELSE LET same == IF t_team # None THEN t_team = c_team ELSE FALSE
             is_bcba == t_role = "BCBA"
         IN IF same /\ ~is_bcba THEN 0
            ELSE IF ~same /\ ~is_bcba
                 THEN (IF t_role = "BT" THEN INELIGIBLE_TIER ELSE 1)
                 ELSE IF same /\ is_bcba THEN 2 ELSE 3

Tier(r, ci, ti) ==
    _team_tier(r.therapists[ti].role, r.therapists[ti].teamId, r.clients[ci].teamId)

Rank(r, ti) ==
    get_role_rank(r.therapists[ti].role, r.insuranceQualifications, r.config.defaultRoleRank)

(* all_eligible of the source, as the set of therapist indices in it *)
AllEligible(r, ci) ==
    {ti \in 1..num_t(r) :
        /\ r.therapists[ti].role \notin {"OT", "SLP"}
        /\ meets_insurance(r.therapists[ti], r.clients[ci],
                           r.insuranceQualifications, r.config.defaultRoleRank)
        /\ Tier(r, ci, ti) < INELIGIBLE_TIER}

(* list.sort is stable and all_eligible is built in therapist order, so the *)
(* sorted list is ordered by (tier, role rank, therapist index).            *)
SortsBefore(r, ci, a, b) ==
    \/ Tier(r, ci, a) < Tier(r, ci, b)
    \/ Tier(r, ci, a) = Tier(r, ci, b) /\ Rank(r, a) < Rank(r, b)
    \/ Tier(r, ci, a) = Tier(r, ci, b) /\ Rank(r, a) = Rank(r, b) /\ a < b

RECURSIVE SortEligible(_, _, _)
SortEligible(r, ci, S) ==
    IF S = {} THEN <<>>
    ELSE LET first == CHOOSE a \in S : \A b \in S \ {a} : SortsBefore(r, ci, a, b)
         IN <<first>> \o SortEligible(r, ci, S \ {first})

----------------------------------------------------------------------------
(* Callout blackouts: per entity, the sequence of clamped slot ranges <<s, e>> *)

callout_range(r, co) ==
    <<Max2(0, (time_to_minutes(co.startTime) - op_start(r)) \div SLOT_SIZE),
      Min2(num_slots(r), CeilDiv(time_to_minutes(co.endTime) - op_start(r), SLOT_SIZE))>>

RECURSIVE BlockedOf(_, _, _, _)
BlockedOf(r, cos, isTherapist, id) ==
    IF cos = <<>> THEN <<>>
    ELSE LET co == Head(cos)
             rg == callout_range(r, co)
         IN (IF (co.entityType = "therapist") = isTherapist /\ co.entityId = id /\ rg[2] > rg[1]
             THEN <<rg>> ELSE <<>>)
            \o BlockedOf(r, Tail(cos), isTherapist, id)

therapist_blocked(r, ti) == BlockedOf(r, r.callouts, TRUE, r.therapists[ti].id)

client_blocked(r, ci) == BlockedOf(r, r.callouts, FALSE, r.clients[ci].id)

client_slot_blocked(r, ci) ==
    {s \in 0..(num_slots(r) - 1) :
        \E i \in DOMAIN client_blocked(r, ci) :
            client_blocked(r, ci)[i][1] <= s /\ s < client_blocked(r, ci)[i][2]}

RangeLengths(rs) == [i \in DOMAIN rs |-> rs[i][2] - rs[i][1]]

therapist_fully_blocked(r) ==
    {ti \in 1..num_t(r) : SumSeq(RangeLengths(therapist_blocked(r, ti))) >= num_slots(r)}

RECURSIVE DropBlocked(_, _)
DropBlocked(ep, blocked) ==
    IF ep = <<>> THEN <<>>
    ELSE (IF Head(ep) \notin blocked THEN <<Head(ep)>> ELSE <<>>)
         \o DropBlocked(Tail(ep), blocked)

eligible_pairs(r, ci) ==
    DropBlocked(SortEligible(r, ci, AllEligible(r, ci)), therapist_fully_blocked(r))

----------------------------------------------------------------------------
(* Per-client duration and weekly limits *)

(* faulty variant: the minimum duration is rounded down to slots, not up *)
min_dur_slots_floor(r, ci) ==
    Max2(1, get_min_duration_minutes(r.clients[ci], r.insuranceQualifications) \div SLOT_SIZE)

min_dur_slots(r, ci) ==
    Max2(1, (get_min_duration_minutes(r.clients[ci], r.insuranceQualifications)
             + SLOT_SIZE - 1) \div SLOT_SIZE)

max_dur_slots(r, ci) ==
    get_max_duration_minutes(r.clients[ci], r.insuranceQualifications) \div SLOT_SIZE

other_day_mins(r, ci) ==
    IF r.clients[ci].id \in DOMAIN r.otherDayMinutesPerClient
    THEN r.otherDayMinutesPerClient[r.clients[ci].id] ELSE 0

remaining_weekly_slots(r, ci) ==
    Max2(0, get_max_weekly_minutes(r.clients[ci], r.insuranceQualifications)
            - other_day_mins(r, ci)) \div SLOT_SIZE

zero_budget_clients(r) == {ci \in 1..num_c(r) : remaining_weekly_slots(r, ci) <= 0}

(* faulty variant: session variables are created on weekends too *)
sessions_every_day(r, ci) ==
    IF ci \in zero_budget_clients(r) THEN 0 ELSE MAX_SESSIONS_PER_PAIR

(* the number of ABA session variables of each eligible (client, therapist) pair *)
sessions_per_pair(r, ci) ==
    IF is_weekend(r) \/ ci \in zero_budget_clients(r) THEN 0 ELSE MAX_SESSIONS_PER_PAIR

----------------------------------------------------------------------------
(* Allied Health entries, in the order the source appends them *)

eligible_tis(r, need) ==
    LET S == {ti \in 1..num_t(r) : r.therapists[ti].role = need.type}
    IN [i \in 1..Cardinality(S) |->
           CHOOSE ti \in S : Cardinality({x \in S : x < ti}) = i - 1]

need_start_slot(r, need) == (time_to_minutes(need.startTime) - op_start(r)) \div SLOT_SIZE

need_length(need) ==
    CeilDiv(time_to_minutes(need.endTime) - time_to_minutes(need.startTime), SLOT_SIZE)

(* faulty variant: the weekly minutes of the client are not looked at *)
need_materialized_uncapped(r, ci, need) ==
    /\ r.day \in need.specificDays
    /\ need.startTime # <<>> /\ need.endTime # <<>>
    /\ ~(need_start_slot(r, need) < 0
         \/ need_start_slot(r, need) + need_length(need) > num_slots(r))

need_materialized(r, ci, need) ==
    /\ r.day \in need.specificDays
    /\ need.startTime # <<>> /\ need.endTime # <<>>
    /\ ~(need_start_slot(r, need) < 0
         \/ need_start_slot(r, need) + need_length(need) > num_slots(r))
    /\ ~(other_day_mins(r, ci) + need_length(need) * SLOT_SIZE
           > get_max_weekly_minutes(r.clients[ci], r.insuranceQualifications))

(* f"AlliedHealth_{need.type}" *)
session_type(need) ==
    CASE need.type = "OT" -> "AlliedHealth_OT"
      [] need.type = "SLP" -> "AlliedHealth_SLP"
      [] OTHER -> "AlliedHealth_"

ah_entry(r, ci, need) ==
    [ci |-> ci, start_slot |-> need_start_slot(r, need), length |-> need_length(need),
     session_type |-> session_type(need),
     eligible_tis |-> eligible_tis(r, need)]

RECURSIVE ah_of_needs(_, _, _)
ah_of_needs(r, ci, needs) ==
    IF needs = <<>> THEN <<>>
    ELSE (IF need_materialized(r, ci, Head(needs))
          THEN <<ah_entry(r, ci, Head(needs))>> ELSE <<>>)
         \o ah_of_needs(r, ci, Tail(needs))

RECURSIVE ah_from(_, _)
ah_from(r, ci) ==
    IF ci > num_c(r) THEN <<>>
    ELSE ah_of_needs(r, ci, r.clients[ci].alliedHealthNeeds) \o ah_from(r, ci + 1)

ah_entries(r) == ah_from(r, 1)

----------------------------------------------------------------------------
(* Lunch window *)

(* faulty variant: a lunch of the initial schedule fixes the window start *)
lunch_window_start_hinted(r) ==
    IF \E i \in DOMAIN r.initialSchedule : r.initialSchedule[i].sessionType = "IndirectTime"
    THEN Max2(0, time_to_slot(
             r.initialSchedule[CHOOSE i \in DOMAIN r.initialSchedule :
                 r.initialSchedule[i].sessionType = "IndirectTime"].startTime, op_start(r)))
    ELSE Max2(0, time_to_slot(r.config.idealLunchWindowStart, op_start(r)))

lunch_window_start(r) ==
    Max2(0, time_to_slot(r.config.idealLunchWindowStart, op_start(r)))

(* faulty variant: the end of the window is not clamped to num_slots - 2 *)
lunch_window_end_unclamped(r) ==
    time_to_slot(r.config.idealLunchWindowEndForStart, op_start(r))

lunch_window_end(r) ==
    Min2(num_slots(r) - 2, time_to_slot(r.config.idealLunchWindowEndForStart, op_start(r)))

max_concurrent_lunches(r) == Max2(1, num_t(r) \div 4)

(* Everything _solve_with_coverage_mode computes before it creates variables *)
(* time_to_minutes, lines 18-20: map(int, t.split(":")) raises ValueError   *)
(* on a string that is not two integers around one colon.  Such a string   *)
(* is any tuple that is not a pair; <<>> is the empty string.              *)
parses(t) == Len(t) = 2

(* build_and_solve, lines 110-111, converts the operating hours before     *)
(* anything else                                                           *)
config_raises(r) ==
    ~parses(r.config.operatingHoursStart) \/ ~parses(r.config.operatingHoursEnd)

(* lines 249-251 convert both times of every callout; lines 371-376        *)
(* convert both times of every need of the day that has both times set;    *)
(* lines 439-440 convert the lunch window                                  *)
raises_value_error(r) ==
    \/ ~parses(r.config.idealLunchWindowStart)
    \/ ~parses(r.config.idealLunchWindowEndForStart)
    \/ \E i \in DOMAIN r.callouts :
          ~parses(r.callouts[i].startTime) \/ ~parses(r.callouts[i].endTime)
    \/ \E ci \in 1..num_c(r) : \E n \in DOMAIN r.clients[ci].alliedHealthNeeds :
          LET need == r.clients[ci].alliedHealthNeeds[n]
          IN /\ r.day \in need.specificDays
             /\ need.startTime # <<>> /\ need.endTime # <<>>
             /\ ~parses(need.startTime) \/ ~parses(need.endTime)

----------------------------------------------------------------------------
(* Warm-start hints, lines 798-844: the list of (variable, value) pairs    *)
(* that model.add_hint appends, in the order of the calls.  A variable is  *)
(* named by its kind and indices; session indices k count from 0.          *)

Hint(var, value) == [var |-> var, value |-> value]

(* client_idx and therapist_idx, lines 173-174: dict.get, 0 for a miss *)
index_of(seq, id) ==
    IF \E i \in DOMAIN seq : seq[i].id = id
    THEN CHOOSE i \in DOMAIN seq :
            seq[i].id = id /\ \A j \in DOMAIN seq : seq[j].id = id => j <= i
    ELSE 0

(* ti_to_local[ci], 0 for a miss *)
ti_to_local(r, ci, ti) ==
    IF \E tl \in DOMAIN eligible_pairs(r, ci) : eligible_pairs(r, ci)[tl] = ti
    THEN CHOOSE tl \in DOMAIN eligible_pairs(r, ci) : eligible_pairs(r, ci)[tl] = ti
    ELSE 0

truthy(id) == id # None /\ id # ""

(* lines 804-812 *)
lunch_hints(r, entry) ==
    LET ti == index_of(r.therapists, entry.therapistId)
        st == Max2(0, time_to_slot(entry.startTime, op_start(r)))
    IN IF truthy(entry.therapistId) /\ ti # 0
          /\ lunch_window_start(r) <= st /\ st <= lunch_window_end(r)
       THEN <<Hint(<<"lunch_active", ti>>, 1), Hint(<<"lunch_start", ti>>, st)>>
       ELSE <<>>

(* lines 815-824: the pair <<ci, tl>> an ABA entry is a hint for, <<>> if none *)
hinted_pair(r, entry, hint_count) ==
    LET ci == index_of(r.clients, entry.clientId)
        ti == index_of(r.therapists, entry.therapistId)
    IN IF entry.sessionType = "ABA" /\ truthy(entry.clientId) /\ truthy(entry.therapistId)
          /\ ci # 0 /\ ti # 0
       THEN (IF ti_to_local(r, ci, ti) # 0
                /\ hint_count[<<ci, ti_to_local(r, ci, ti)>>] < sessions_per_pair(r, ci)
             THEN <<ci, ti_to_local(r, ci, ti)>> ELSE <<>>)
       ELSE <<>>

(* lines 825-830 *)
aba_hints(r, entry, key, k) ==
    LET st == Max2(0, time_to_slot(entry.startTime, op_start(r)))
        dur == Max2(1, time_to_slot(entry.endTime, op_start(r)) - st)
    IN <<Hint(<<"aba_active", key[1], key[2], k>>, 1),
         Hint(<<"aba_start", key[1], key[2], k>>, st),
         Hint(<<"aba_duration", key[1], key[2], k>>, dur)>>

(* lines 833-844: the sessions no entry was a hint for are hinted inactive *)
RECURSIVE inactive_hints(_, _, _, _, _)
inactive_hints(r, hint_count, ci, tl, k) ==
    IF ci > num_c(r) THEN <<>>
    ELSE IF tl > Len(eligible_pairs(r, ci)) THEN inactive_hints(r, hint_count, ci + 1, 1, 0)
    ELSE IF k >= sessions_per_pair(r, ci) THEN inactive_hints(r, hint_count, ci, tl + 1, 0)
    ELSE (IF k >= hint_count[<<ci, tl>>]
          THEN <<Hint(<<"aba_active", ci, tl, k>>, 0), Hint(<<"aba_duration", ci, tl, k>>, 0)>>
          ELSE <<>>)
         \o inactive_hints(r, hint_count, ci, tl, k + 1)

(* lines 802-831, entry by entry, with the hint_count dictionary *)
RECURSIVE entry_hints(_, _, _)
entry_hints(r, entries, hint_count) ==
    IF entries = <<>> THEN inactive_hints(r, hint_count, 1, 1, 0)
    ELSE LET entry == Head(entries)
             key == hinted_pair(r, entry, hint_count)
         IN IF entry.day # r.day THEN entry_hints(r, Tail(entries), hint_count)
            ELSE IF entry.sessionType = "IndirectTime"
            THEN lunch_hints(r, entry) \o entry_hints(r, Tail(entries), hint_count)
            ELSE IF key # <<>>
            THEN aba_hints(r, entry, key, hint_count[key])
                 \o entry_hints(r, Tail(entries),
                                [hint_count EXCEPT ![key] = hint_count[key] + 1])
            ELSE entry_hints(r, Tail(entries), hint_count)

warm_start_hints(r) ==
    IF r.initialSchedule = <<>> THEN <<>>
    ELSE entry_hints(r, r.initialSchedule,
                     [key \in {<<ci, tl>> : ci \in 1..num_c(r), tl \in 1..num_t(r)} |-> 0])

BuildModel(r) ==
    [eligible_pairs |-> [ci \in 1..num_c(r) |-> eligible_pairs(r, ci)],
     min_dur_slots |-> [ci \in 1..num_c(r) |-> min_dur_slots(r, ci)],
     max_dur_slots |-> [ci \in 1..num_c(r) |-> max_dur_slots(r, ci)],
     remaining_weekly_slots |-> [ci \in 1..num_c(r) |-> remaining_weekly_slots(r, ci)],
     sessions |-> [ci \in 1..num_c(r) |-> sessions_per_pair(r, ci)],
     therapist_blocked |-> [ti \in 1..num_t(r) |-> therapist_blocked(r, ti)],
     client_blocked |-> [ci \in 1..num_c(r) |-> client_blocked(r, ci)],
     blocked_count |-> [ci \in 1..num_c(r) |-> Cardinality(client_slot_blocked(r, ci))],
     max_p |-> [ci \in 1..num_c(r) |->
                  get_max_providers(r.clients[ci], r.insuranceQualifications)],
     ah_entries |-> ah_entries(r),
     lunch_window_start |-> lunch_window_start(r),
     lunch_window_end |-> lunch_window_end(r),
     max_concurrent_lunches |-> max_concurrent_lunches(r),
     num_slots |-> num_slots(r), num_c |-> num_c(r), num_t |-> num_t(r),
     is_weekend |-> is_weekend(r),
     team_tier_map |-> [ci \in 1..num_c(r) |->
                          [tl \in DOMAIN eligible_pairs(r, ci) |->
                              Tier(r, ci, eligible_pairs(r, ci)[tl])]],
     rank |-> [ti \in 1..num_t(r) |-> Rank(r, ti)],
     hints |-> warm_start_hints(r)]

----------------------------------------------------------------------------
(* The constraint model.  M is the built model, A the set of ABA sessions  *)
(* that are active, each [ci, tl, k, st, dur] with tl the local index into *)
(* eligible_pairs[ci]; an inactive session has duration 0 and is in no     *)
(* interval pool.  ch[i] is the set of candidates of Allied Health entry i *)
(* whose chosen variable is true, lu[ti] the lunch variables of therapist  *)
(* ti.  An interval is [tag, s, e], the slots s..(e-1).                    *)

TherapistOf(M, a) == M.eligible_pairs[a.ci][a.tl]

Overlap(x, y) == x.s < y.e /\ y.s < x.e

(* add_no_overlap: an order of the intervals exists with end <= next start *)
NoOverlap(S) == \A x \in S : \A y \in S : x.tag # y.tag => ~Overlap(x, y)

AbaIntervals(A) ==
    {[tag |-> <<"aba", a.ci, a.tl, a.k>>, s |-> a.st, e |-> a.st + a.dur] : a \in A}

AhIntervalsOfTherapist(M, ch, ti) ==
    {[tag |-> <<"ah", i, ti, 0>>, s |-> M.ah_entries[i].start_slot,
      e |-> M.ah_entries[i].start_slot + M.ah_entries[i].length] :
        i \in {j \in DOMAIN M.ah_entries : ti \in ch[j]}}

AhIntervalsOfClient(M, ch, ci) ==
    {[tag |-> <<"ah", x[1], x[2], 0>>, s |-> M.ah_entries[x[1]].start_slot,
      e |-> M.ah_entries[x[1]].start_slot + M.ah_entries[x[1]].length] :
        x \in {y \in (DOMAIN M.ah_entries) \X (1..M.num_t) :
                 M.ah_entries[y[1]].ci = ci /\ y[2] \in ch[y[1]]}}

LunchInterval(lu, ti) ==
    IF lu[ti].active
    THEN {[tag |-> <<"lunch", ti, 0, 0>>, s |-> lu[ti].st, e |-> lu[ti].st + LUNCH_SLOTS]}
    ELSE {}

CalloutIntervals(blocked) ==
    {[tag |-> <<"co", i, 0, 0>>, s |-> blocked[i][1], e |-> blocked[i][2]] :
        i \in DOMAIN blocked}

(* faulty variant: the lunch interval is left out of the therapist's pool *)
TherapistPoolWithoutLunch(M, A, ch, lu, ti) ==
    AbaIntervals({a \in A : TherapistOf(M, a) = ti})
    \cup AhIntervalsOfTherapist(M, ch, ti)
    \cup CalloutIntervals(M.therapist_blocked[ti])

(* lines 478-503 *)
TherapistPool(M, A, ch, lu, ti) ==
    AbaIntervals({a \in A : TherapistOf(M, a) = ti})
    \cup AhIntervalsOfTherapist(M, ch, ti)
    \cup LunchInterval(lu, ti)
    \cup CalloutIntervals(M.therapist_blocked[ti])

NoOverlapTherapist(M, A, ch, lu) ==
    \A ti \in 1..M.num_t : NoOverlap(TherapistPool(M, A, ch, lu, ti))

(* faulty variant: the client's callout blackouts are left out of its pool *)
ClientPoolWithoutCallouts(M, A, ch, ci) ==
    AbaIntervals({a \in A : a.ci = ci}) \cup AhIntervalsOfClient(M, ch, ci)

(* lines 508-528 *)
ClientPool(M, A, ch, ci) ==
    AbaIntervals({a \in A : a.ci = ci})
    \cup AhIntervalsOfClient(M, ch, ci)
    \cup CalloutIntervals(M.client_blocked[ci])

NoOverlapClient(M, A, ch) ==
    \A ci \in 1..M.num_c : NoOverlap(ClientPool(M, A, ch, ci))

(* faulty variant: no cumulative constraint on the lunch intervals *)
LunchStaggerNone(M, lu) == TRUE

(* lines 466-473: add_cumulative over the lunch intervals *)
LunchStagger(M, lu) ==
    \A s \in 0..(M.num_slots + LUNCH_SLOTS) :
        Cardinality({ti \in 1..M.num_t :
            lu[ti].active /\ lu[ti].st <= s /\ s < lu[ti].st + LUNCH_SLOTS})
          <= M.max_concurrent_lunches

(* lines 534-568.  prov_c_t is forced to the OR of the pair's active       *)
(* sessions; an Allied Health candidate that is also ABA-eligible implies  *)
(* it, any other candidate gets a provider variable of its own per need.   *)
AbaProviders(M, A, ci) == {TherapistOf(M, a) : a \in {b \in A : b.ci = ci}}

AhOnlyProviders(M, ci) ==
    {y \in (DOMAIN M.ah_entries) \X (1..M.num_t) :
        /\ M.ah_entries[y[1]].ci = ci
        /\ y[2] \in Range(M.ah_entries[y[1]].eligible_tis)
        /\ y[2] \notin Range(M.eligible_pairs[ci])}

ProviderVars(M, ci) == Len(M.eligible_pairs[ci]) + Cardinality(AhOnlyProviders(M, ci))

(* faulty variant: the sum over the provider variables is never bounded *)
MaxProvidersUnbounded(M, A, ch) ==
    \A ci \in 1..M.num_c :
        \A i \in DOMAIN M.ah_entries : \A ti \in ch[i] :
            (M.ah_entries[i].ci = ci /\ ti \in Range(M.eligible_pairs[ci]))
                => ti \in AbaProviders(M, A, ci)

MaxProviders(M, A, ch) ==
    \A ci \in 1..M.num_c :
        /\ \A i \in DOMAIN M.ah_entries : \A ti \in ch[i] :
              (M.ah_entries[i].ci = ci /\ ti \in Range(M.eligible_pairs[ci]))
                  => ti \in AbaProviders(M, A, ci)
        /\ (M.max_p[ci] < NO_MAX_PROVIDERS /\ ProviderVars(M, ci) > 0)
              => Cardinality(AbaProviders(M, A, ci))
                 + Cardinality({y \in AhOnlyProviders(M, ci) : y[2] \in ch[y[1]]})
                    <= M.max_p[ci]

RECURSIVE SumDur(_)
SumDur(S) ==
    IF S = {} THEN 0
    ELSE LET a == CHOOSE x \in S : TRUE IN a.dur + SumDur(S \ {a})

ClientDur(A, ci) == SumDur({a \in A : a.ci = ci})

HasAbaVars(M, ci) == Len(M.eligible_pairs[ci]) > 0 /\ M.sessions[ci] > 0

AhLengthOfClient(M, ci) ==
    SumSeq([i \in DOMAIN M.ah_entries |->
               IF M.ah_entries[i].ci = ci THEN M.ah_entries[i].length ELSE 0])

(* lines 573-589 *)
WeeklyHours(M, A) ==
    \A ci \in 1..M.num_c :
        (/\ ~(M.remaining_weekly_slots[ci] >= M.num_slots * MAX_SESSIONS_PER_PAIR)
         /\ HasAbaVars(M, ci))
            => ClientDur(A, ci) + AhLengthOfClient(M, ci) <= M.remaining_weekly_slots[ci]

(* faulty variant: the second session may start where the first ends *)
PairGapNone(k1, k2) == k2.st >= k1.st + k1.dur

(* lines 594-621 *)
PairGap(k1, k2) == k2.st >= k1.st + k1.dur + 1

PairOrdering(A) ==
    \A k2 \in A : k2.k > 0 =>
        \E k1 \in A : /\ k1.ci = k2.ci /\ k1.tl = k2.tl /\ k1.k = k2.k - 1
                      /\ PairGap(k1, k2)

(* lines 335-345: the variable domains and the duration bounds of an active session *)
SessionDomain(M, a) ==
    /\ a.st \in 0..M.num_slots /\ a.dur \in 0..M.num_slots
    /\ a.st + a.dur \in 0..M.num_slots
    /\ a.dur >= M.min_dur_slots[a.ci]
    /\ a.dur <= M.max_dur_slots[a.ci]

(* lines 627-649 *)
Billable(M, A, ch, ti) ==
    \/ \E a \in A : TherapistOf(M, a) = ti
    \/ \E i \in DOMAIN M.ah_entries : ti \in ch[i]

(* faulty variant: billable work forces a lunch, but a lunch needs no billable work *)
LunchEnforcementOneWay(M, A, ch, lu) ==
    \A ti \in 1..M.num_t : Billable(M, A, ch, ti) => lu[ti].active

LunchEnforcement(M, A, ch, lu) ==
    \A ti \in 1..M.num_t : lu[ti].active = Billable(M, A, ch, ti)

(* lines 777-790 *)
NotesOf(M, A, ch, ti) ==
    Cardinality({a \in A : TherapistOf(M, a) = ti})
    + Cardinality({i \in DOMAIN M.ah_entries : ti \in ch[i]})

(* faulty variant: the cap admits one note more *)
MaxNotesOneMore(M, A, ch) ==
    \A ti \in 1..M.num_t : NotesOf(M, A, ch, ti) <= MAX_NOTES_PER_THERAPIST + 1

MaxNotes(M, A, ch) ==
    \A ti \in 1..M.num_t : NotesOf(M, A, ch, ti) <= MAX_NOTES_PER_THERAPIST

(* faulty variant: add_at_most_one, a need may be left to nobody *)
AtMostOneChosen(M, ch) ==
    \A i \in DOMAIN M.ah_entries :
        /\ ch[i] \subseteq Range(M.ah_entries[i].eligible_tis)
        /\ Cardinality(ch[i]) <= 1

(* lines 407-420: add_exactly_one over the candidates of a need *)
ExactlyOneChosen(M, ch) ==
    \A i \in DOMAIN M.ah_entries :
        /\ ch[i] \subseteq Range(M.ah_entries[i].eligible_tis)
        /\ M.ah_entries[i].eligible_tis # <<>> => Cardinality(ch[i]) = 1

(* lines 660-713: coverage *)
client_available(M, ci) ==
    Max2(0, M.num_slots - M.blocked_count[ci] - AhLengthOfClient(M, ci))

total_therapist_capacity(M) == M.num_t * (M.num_slots - LUNCH_SLOTS)

total_client_available(M) ==
    SumSeq([ci \in 1..M.num_c |-> client_available(M, ci)])

(* available * capacity_ratio * 0.85 is a product of doubles (line 697).   *)
(* With capacity_ratio below 1.0 its value falls just under the exact      *)
(* product, which is then a whole number, for these <<available, p, q>>    *)
(* with capacity_ratio = p / q in lowest terms: 10 * (14 / 17) * 0.85 is   *)
(* 6.999999999999999.  The list is complete for available <= 33,           *)
(* total_therapist_capacity <= 100 and total_client_available <= 400; in   *)
(* every other case of that range int() of the double is the exact floor.  *)
RoundsBelow ==
    {<<6, 50, 51>>, <<10, 14, 17>>, <<12, 25, 51>>, <<12, 35, 51>>,
     <<12, 50, 51>>, <<15, 20, 51>>, <<15, 40, 51>>, <<16, 35, 68>>,
     <<17, 100, 289>>, <<18, 50, 51>>, <<18, 70, 153>>, <<20, 7, 17>>,
     <<20, 13, 17>>, <<20, 14, 17>>, <<21, 20, 51>>, <<21, 40, 51>>,
     <<22, 70, 187>>, <<24, 25, 51>>, <<24, 25, 102>>, <<24, 35, 51>>,
     <<24, 35, 102>>, <<24, 50, 51>>, <<24, 65, 102>>, <<25, 4, 17>>,
     <<25, 8, 17>>, <<25, 16, 17>>, <<25, 28, 85>>, <<25, 56, 85>>,
     <<26, 70, 221>>, <<28, 15, 17>>, <<28, 65, 119>>, <<30, 10, 51>>,
     <<30, 14, 17>>, <<30, 20, 51>>, <<30, 26, 51>>, <<30, 40, 51>>,
     <<30, 50, 51>>, <<32, 35, 68>>, <<32, 35, 136>>}

rounds_below(available, capacity, total) ==
    \E x \in RoundsBelow :
        x[1] = available /\ capacity * x[3] = total * x[2]

(* int(available * capacity_ratio * 0.85) with capacity_ratio =             *)
(* min(1.0, total_therapist_capacity / total_client_available)              *)
fair_share(M, ci) ==
    IF total_client_available(M) > 0
       /\ total_therapist_capacity(M) < total_client_available(M)
    THEN (client_available(M, ci) * total_therapist_capacity(M) * 85)
            \div (total_client_available(M) * 100)
         - (IF rounds_below(client_available(M, ci), total_therapist_capacity(M),
                            total_client_available(M))
            THEN 1 ELSE 0)
    ELSE (client_available(M, ci) * 85) \div 100

min_coverage(M, ci) ==
    Min2(Min2(Max2(M.min_dur_slots[ci], fair_share(M, ci)), client_available(M, ci)),
         M.remaining_weekly_slots[ci])

Coverage(M, A, hard) ==
    M.is_weekend \/
    \A ci \in 1..M.num_c :
        (client_available(M, ci) > 0 /\ HasAbaVars(M, ci)) =>
            IF hard
            THEN ClientDur(A, ci) >= client_available(M, ci)
            ELSE /\ min_coverage(M, ci) > 0 => ClientDur(A, ci) >= min_coverage(M, ci)
                 /\ client_available(M, ci) - ClientDur(A, ci) \in 0..client_available(M, ci)

(* the constraints a partial search state can already violate for good *)
NoChoice(M) == [i \in DOMAIN M.ah_entries |-> {}]

NoLunch(M) == [ti \in 1..M.num_t |-> [active |-> FALSE, st |-> M.lunch_window_start]]

Consistent(M, A) ==
    /\ \A a \in A : SessionDomain(M, a)
    /\ PairOrdering(A)
    /\ NoOverlapClient(M, A, NoChoice(M))
    /\ NoOverlapTherapist(M, A, NoChoice(M), NoLunch(M))
    /\ MaxProviders(M, A, NoChoice(M))
    /\ WeeklyHours(M, A)
    /\ MaxNotes(M, A, NoChoice(M))

(* Bounds propagation on the coverage minimum, lines 693 and 702-703,      *)
(* against the session domains (340), the provider cap (565-566) and the   *)
(* note cap (790): a partial assignment is dropped when no extension of it *)
(* can reach the total duration that the coverage constraint demands.      *)
required_coverage(M, ci, hard) ==
    IF M.is_weekend \/ ~HasAbaVars(M, ci) \/ client_available(M, ci) <= 0 THEN 0
    ELSE IF hard THEN client_available(M, ci)
    ELSE Max2(0, min_coverage(M, ci))

sessions_left(M, A, ci, tl) ==
    M.sessions[ci] - Cardinality({a \in A : a.ci = ci /\ a.tl = tl})

max_more_duration(M, A, ci) ==
    LET used == {tl \in DOMAIN M.eligible_pairs[ci] : \E a \in A : a.ci = ci /\ a.tl = tl}
        fresh == (DOMAIN M.eligible_pairs[ci]) \ used
        more == IF M.max_p[ci] < NO_MAX_PROVIDERS
                THEN Min2(Cardinality(fresh), Max2(0, M.max_p[ci] - Cardinality(used)))
                ELSE Cardinality(fresh)
    IN M.max_dur_slots[ci]
       * (SumFn([tl \in used |-> sessions_left(M, A, ci, tl)]) + more * M.sessions[ci])

notes_left(M, A) ==
    SumFn([ti \in 1..M.num_t |->
             Max2(0, MAX_NOTES_PER_THERAPIST - Cardinality({a \in A : TherapistOf(M, a) = ti}))])

CoverageReachable(M, A, hard) ==
    /\ \A ci \in 1..M.num_c :
          ClientDur(A, ci) + max_more_duration(M, A, ci) >= required_coverage(M, ci, hard)
    /\ Cardinality({ci \in 1..M.num_c :
                      required_coverage(M, ci, hard) > 0 /\ ClientDur(A, ci) = 0})
          <= notes_left(M, A)

(* every constraint of the model *)
Feasible(M, A, ch, lu, hard) ==
    /\ ExactlyOneChosen(M, ch)
    /\ \A a \in A : SessionDomain(M, a)
    /\ PairOrdering(A)
    /\ MaxNotes(M, A, ch)
    /\ MaxProviders(M, A, ch)
    /\ WeeklyHours(M, A)
    /\ Coverage(M, A, hard)
    /\ NoOverlapClient(M, A, ch)
    /\ LunchEnforcement(M, A, ch, lu)
    /\ LunchStagger(M, lu)
    /\ NoOverlapTherapist(M, A, ch, lu)

----------------------------------------------------------------------------
(* The objective, lines 654-775 and 792-793.  The excess variables occur   *)
(* only in the minimised sum, bounded below by bill_i - bill_j and by 0,   *)
(* and are taken at that bound.                                            *)

(* 1. coverage gap, soft mode on weekdays *)
coverage_gap(M, A, hard) ==
    IF M.is_weekend \/ hard THEN 0
    ELSE SumFn([ci \in {c \in 1..M.num_c : client_available(M, c) > 0} |->
                 COVERAGE_GAP_WEIGHT
                 * (IF HasAbaVars(M, ci) THEN client_available(M, ci) - ClientDur(A, ci)
                    ELSE client_available(M, ci))])

(* 2. workload balance *)
therapist_billable(M, A, ch, ti) ==
    SumDur({a \in A : TherapistOf(M, a) = ti})
    + SumFn([i \in {j \in DOMAIN M.ah_entries : ti \in ch[j]} |-> M.ah_entries[i].length])

balance_penalty(M, A, ch) ==
    SumFn([y \in {z \in (1..M.num_t) \X (1..M.num_t) :
                     z[1] # z[2] /\ M.rank[z[1]] > M.rank[z[2]]} |->
             BALANCE_WEIGHT * Max2(0, therapist_billable(M, A, ch, y[1])
                                      - therapist_billable(M, A, ch, y[2]))])

(* 3. off-team and BCBA penalty per slot *)
_TIER_WEIGHTS(tier) ==
    CASE tier = 1 -> 500 [] tier = 2 -> 800 [] tier = 3 -> 1500 [] OTHER -> 0

tier_penalty(M, A) ==
    SumFn([a \in A |-> _TIER_WEIGHTS(M.team_tier_map[a.ci][a.tl]) * a.dur])

(* 4. one note per active session *)
note_penalty(A) == NOTE_WEIGHT * Cardinality(A)

objective_value(M, A, ch, hard) ==
    coverage_gap(M, A, hard) + balance_penalty(M, A, ch) + tier_penalty(M, A)
    + note_penalty(A)

----------------------------------------------------------------------------
(* Solution extraction, lines 887-943 *)

Entry(r, ci, ti, s, e, type) ==
    [clientId |-> IF ci = 0 THEN None ELSE r.clients[ci].id,
     therapistId |-> IF ti = 0 THEN None ELSE r.therapists[ti].id,
     day |-> r.day,
     startTime |-> slot_to_time(s, op_start(r)),
     endTime |-> slot_to_time(e, op_start(r)),
     sessionType |-> type]

KeyBefore(a, b) ==
    \/ a.ci < b.ci
    \/ a.ci = b.ci /\ a.tl < b.tl
    \/ a.ci = b.ci /\ a.tl = b.tl /\ a.k < b.k

RECURSIVE extract_aba(_, _, _)
extract_aba(r, M, A) ==
    IF A = {} THEN <<>>
    ELSE LET a == CHOOSE x \in A : \A y \in A \ {x} : KeyBefore(x, y)
         IN <<Entry(r, a.ci, TherapistOf(M, a), a.st, a.st + a.dur, "ABA")>>
            \o extract_aba(r, M, A \ {a})

(* the first candidate, in eligible_tis order, whose chosen variable is true *)
assigned_ti(ah, chosen) ==
    IF \E i \in DOMAIN ah.eligible_tis : ah.eligible_tis[i] \in chosen
    THEN ah.eligible_tis[CHOOSE i \in DOMAIN ah.eligible_tis :
            /\ ah.eligible_tis[i] \in chosen
            /\ \A j \in 1..(i - 1) : ah.eligible_tis[j] \notin chosen]
    ELSE 0

extract_ah(r, M, ch) ==
    [i \in DOMAIN M.ah_entries |->
        Entry(r, M.ah_entries[i].ci, assigned_ti(M.ah_entries[i], ch[i]),
              M.ah_entries[i].start_slot,
              M.ah_entries[i].start_slot + M.ah_entries[i].length,
              M.ah_entries[i].session_type)]

RECURSIVE extract_lunch(_, _, _)
extract_lunch(r, lu, ti) ==
    IF ti > num_t(r) THEN <<>>
    ELSE (IF lu[ti].active
          THEN <<Entry(r, 0, ti, lu[ti].st, lu[ti].st + LUNCH_SLOTS, "IndirectTime")>>
          ELSE <<>>)
         \o extract_lunch(r, lu, ti + 1)

extract_schedule(r, M, A, ch, lu) ==
    extract_aba(r, M, A) \o extract_ah(r, M, ch) \o extract_lunch(r, lu, 1)

----------------------------------------------------------------------------
(* Responses *)

NoResponse ==
    [success |-> FALSE, schedule |-> <<>>, statusMessage |-> "", objectiveValue |-> {},
     coverageMode |-> ""]

(* faulty variant: the empty problem is reported as a failure *)
EmptyResponseFailed(mode) ==
    [success |-> FALSE, schedule |-> <<>>,
     statusMessage |-> "No clients or therapists to schedule.", objectiveValue |-> {},
     coverageMode |-> mode]

EmptyResponse(mode) ==
    [success |-> TRUE, schedule |-> <<>>,
     statusMessage |-> "No clients or therapists to schedule.", objectiveValue |-> {},
     coverageMode |-> mode]

(* faulty variant: the message does not say how the solver ended *)
StatusMessageSilent(status) == "No feasible schedule found."

(* f"Solver returned {status_name}. No feasible schedule found." *)
StatusMessage(status) ==
    CASE status = "INFEASIBLE" -> "Solver returned INFEASIBLE. No feasible schedule found."
      [] status = "UNKNOWN" -> "Solver returned UNKNOWN. No feasible schedule found."
      [] OTHER -> "Solver returned MODEL_INVALID. No feasible schedule found."

FailureResponse(status, mode) ==
    [success |-> FALSE, schedule |-> <<>>,
     statusMessage |-> StatusMessage(status), objectiveValue |-> {},
     coverageMode |-> mode]

SuccessResponse(schedule, is_optimal, obj_val, mode) ==
    [success |-> TRUE, schedule |-> schedule,
     statusMessage |-> IF is_optimal THEN "Optimal!" ELSE "Feasible (time limit reached).",
     objectiveValue |-> {obj_val}, coverageMode |-> mode]

ModeName(hard) == IF hard THEN "hard" ELSE "soft"

----------------------------------------------------------------------------
(* Requests.  The operating day is GridSlots slots from 09:00.             *)

OpStart == <<9, 0>>

OpEnd == minutes_to_time(time_to_minutes(OpStart) + GridSlots * SLOT_SIZE)

HoursConfig(opStart, opEnd, lunchStart, lunchEnd) ==
    [operatingHoursStart |-> opStart, operatingHoursEnd |-> opEnd,
     idealLunchWindowStart |-> lunchStart, idealLunchWindowEndForStart |-> lunchEnd,
     defaultRoleRank |-> [x \in {"BT", "RBT", "BCBA"} |->
                             CASE x = "BT" -> 1 [] x = "RBT" -> 2 [] OTHER -> 5]]

Config(lunchStart, lunchEnd) == HoursConfig(OpStart, OpEnd, lunchStart, lunchEnd)

Request(day, clients, therapists, iqs, callouts, other, config) ==
    [day |-> day, clients |-> clients, therapists |-> therapists,
     insuranceQualifications |-> iqs, callouts |-> callouts,
     otherDayMinutesPerClient |-> other, config |-> config, initialSchedule |-> <<>>]

Client(id, team, reqs, needs) ==
    [id |-> id, teamId |-> team, insuranceRequirements |-> reqs, alliedHealthNeeds |-> needs]

Therapist(id, role, team) ==
    [id |-> id, role |-> role, teamId |-> team, qualifications |-> <<"INS">>]

Qualification(id, providers, minDur, maxDur, hours) ==
    [id |-> id, maxTherapistsPerDay |-> providers, minSessionDurationMinutes |-> minDur,
     maxSessionDurationMinutes |-> maxDur, maxHoursPerWeek |-> hours,
     roleHierarchyOrder |-> {}]

Callout(type, id, startTime, endTime) ==
    [entityType |-> type, entityId |-> id, startTime |-> startTime, endTime |-> endTime]

Need(type, days, startTime, endTime) ==
    [type |-> type, specificDays |-> days, startTime |-> startTime, endTime |-> endTime]

NormalLunch == Config(<<9, 30>>, <<10, 0>>)

ShortSessions == Qualification("INS", {}, {20}, {50}, {})

NoOther == [x \in {} |-> 0]

TwoTherapists == <<Therapist("t1", "BT", "A"), Therapist("t2", "RBT", "B")>>

(* one client, a same-team BT and a cross-team RBT, with callouts *)
CalloutLists ==
    {<<>>,
     <<Callout("therapist", "t1", <<9, 10>>, <<9, 25>>)>>,
     <<Callout("therapist", "t1", <<9, 10>>, <<9, 25>>),
       Callout("client", "c1", <<10, 0>>, <<10, 20>>)>>,
     <<Callout("therapist", "t2", <<8, 0>>, <<8, 30>>),
       Callout("client", "c1", <<9, 0>>, <<9, 15>>)>>}

CalloutRequests ==
    {Request("Monday", <<Client("c1", "A", <<"INS">>, <<>>)>>, TwoTherapists,
             <<ShortSessions>>, cos, NoOther, NormalLunch) : cos \in CalloutLists}

(* one client and two therapists under every insurance rule *)
InsuranceRequests ==
    {Request("Monday", <<Client("c1", "A", <<"INS">>, <<>>)>>, TwoTherapists,
             <<Qualification("INS", x[1], x[2], x[3], x[4])>>, <<>>, x[5], NormalLunch) :
        x \in {{}, {1}} \X {{}, {0}, {20}} \X {{}, {0}, {50}} \X {{}, {<<1, 1>>}}
              \X {NoOther, [c \in {"c1"} |-> 20]}}

(* a day of five slots, 09:00-10:15, with the lunch window 09:00-09:45 *)
ShortDay == HoursConfig(<<9, 0>>, <<10, 15>>, <<9, 0>>, <<9, 45>>)

(* the requests whose schedule the caller feeds back as initialSchedule *)
RoundTripRequests ==
    {Request("Monday", <<Client("c1", "A", <<"INS">>, <<>>)>>, TwoTherapists,
             <<ShortSessions>>, <<>>, NoOther, ShortDay)}

ScheduleEntry(clientId, therapistId, day, startTime, endTime, sessionType) ==
    [clientId |-> clientId, therapistId |-> therapistId, day |-> day,
     startTime |-> startTime, endTime |-> endTime, sessionType |-> sessionType]

(* initial schedules written by hand: two lunches of one therapist; three  *)
(* sessions of one pair and a lunch; entries the hint builder passes over  *)
InitialSchedules ==
    {<<ScheduleEntry(None, "t1", "Monday", <<9, 0>>, <<9, 30>>, "IndirectTime"),
       ScheduleEntry(None, "t1", "Monday", <<9, 15>>, <<9, 45>>, "IndirectTime")>>,
     <<ScheduleEntry("c1", "t1", "Monday", <<9, 0>>, <<9, 15>>, "ABA"),
       ScheduleEntry("c1", "t1", "Monday", <<9, 15>>, <<9, 30>>, "ABA"),
       ScheduleEntry("c1", "t1", "Monday", <<9, 30>>, <<9, 45>>, "ABA"),
       ScheduleEntry(None, "t1", "Monday", <<9, 30>>, <<10, 0>>, "IndirectTime")>>,
     <<ScheduleEntry("c1", "t2", "Tuesday", <<9, 0>>, <<9, 30>>, "ABA"),
       ScheduleEntry("c1", "t9", "Monday", <<9, 0>>, <<9, 30>>, "ABA"),
       ScheduleEntry("c1", None, "Monday", <<9, 0>>, <<9, 30>>, "AlliedHealth_OT"),
       ScheduleEntry(None, "t2", "Monday", <<10, 0>>, <<10, 30>>, "IndirectTime")>>}

HintRequests ==
    {[r EXCEPT !.initialSchedule = x] : r \in RoundTripRequests, x \in InitialSchedules}

(* lunch windows: inside the day, not on a slot boundary, before opening *)
LunchRequests ==
    {Request("Monday", <<Client("c1", "A", <<"INS">>, <<>>)>>, TwoTherapists,
             <<ShortSessions>>, <<>>, NoOther, Config(w[1], w[2])) :
        w \in {<<<<9, 40>>, <<10, 0>>>>, <<<<8, 0>>, <<8, 30>>>>, <<<<9, 15>>, <<12, 0>>>>}}

(* a lunch window after closing, with a therapist callout at the same time *)
AfterHoursRequests ==
    {Request("Monday", <<Client("c1", "A", <<"INS">>, <<>>)>>, TwoTherapists,
             <<ShortSessions>>, <<Callout("therapist", "t1", <<11, 0>>, <<11, 30>>)>>,
             NoOther, Config(<<11, 0>>, <<11, 30>>))}

(* BTs of another team and of no team, beside an RBT of another team *)
TeamRequests ==
    {Request("Monday", <<Client("c1", team, <<"INS">>, <<>>)>>,
             <<Therapist("t1", "BT", "B"), Therapist("t2", "BT", None),
               Therapist("t3", "RBT", "B")>>,
             <<ShortSessions>>, <<>>, NoOther, NormalLunch) : team \in {"A", None}}

(* a Sunday with ABA-eligible therapists and nothing else to schedule *)
WeekendRequests ==
    {Request("Sunday", <<Client("c1", "A", <<"INS">>, <<>>)>>, TwoTherapists,
             <<ShortSessions>>, <<>>, NoOther, NormalLunch)}

(* a client nobody may serve, and a client whose weekly budget is used up *)
UncoveredRequests ==
    {Request("Monday", <<Client("c1", "A", <<"INS">>, <<>>)>>,
             <<Therapist("t1", "BT", "B"), Therapist("t2", "BT", None)>>,
             <<ShortSessions>>, <<>>, NoOther, NormalLunch),
     Request("Monday", <<Client("c1", "A", <<"INS">>, <<>>)>>, TwoTherapists,
             <<Qualification("INS", {}, {20}, {50}, {<<1, 2>>})>>, <<>>,
             [c \in {"c1"} |-> 30], NormalLunch)}

(* The boundary scenarios of a full day, 09:00-17:00, lunch 11:00-13:30.   *)
FullDay == HoursConfig(<<9, 0>>, <<17, 0>>, <<11, 0>>, <<13, 30>>)

(* S3: one client, one BT of the same team, sessions of 60 to 180 minutes *)
S3Request ==
    Request("Monday", <<Client("c1", "A", <<"INS">>, <<>>)>>, <<Therapist("t1", "BT", "A")>>,
            <<Qualification("INS", {}, {60}, {180}, {})>>, <<>>, NoOther, FullDay)

(* S5: one client limited to one therapist a day, three eligible BTs *)
S5Request ==
    Request("Monday", <<Client("c1", "A", <<"INS">>, <<>>)>>,
            <<Therapist("t1", "BT", "A"), Therapist("t2", "BT", "A"),
              Therapist("t3", "BT", "A")>>,
            <<Qualification("INS", {1}, {}, {}, {})>>, <<>>, NoOther, FullDay)

(* S6: ten clients, one therapist *)
S6Request ==
    Request("Monday", [i \in 1..10 |-> Client(<<"c", i>>, "A", <<>>, <<>>)],
            <<Therapist("t1", "BT", "A")>>, <<>>, <<>>, NoOther, FullDay)

ScenarioRequests == {S3Request, S5Request, S6Request}

(* Allied Health needs, with and without a therapist of the needed role *)
NeedLists ==
    {<<Need("OT", {"Monday", "Saturday"}, <<9, 0>>, <<9, 25>>)>>,
     <<Need("OT", {"Monday", "Saturday"}, <<9, 0>>, <<9, 25>>),
       Need("SLP", {"Monday", "Saturday"}, <<9, 15>>, <<9, 45>>)>>,
     <<Need("OT", {"Monday", "Saturday"}, <<9, 0>>, <<9, 30>>),
       Need("OT", {"Saturday"}, <<10, 0>>, <<10, 30>>)>>}

AlliedTherapists ==
    {<<Therapist("t1", "BT", "A"), Therapist("t2", "RBT", "A")>>,
     <<Therapist("t1", "BT", "A"), Therapist("t2", "OT", "A")>>,
     <<Therapist("t1", "OT", "A"), Therapist("t2", "OT", "A"), Therapist("t3", "BT", "A")>>}

AlliedRequests ==
    {Request(x[1], <<Client("c1", "A", <<"INS">>, x[2])>>, x[3],
             <<Qualification("INS", x[4], {30}, {60}, x[5])>>, <<>>, NoOther, NormalLunch) :
        x \in {"Monday", "Saturday"} \X NeedLists \X AlliedTherapists \X {{}, {1}}
              \X {{}, {<<1, 2>>}}}

(* many short sessions for one therapist *)
QuarterHours == Qualification("INS", {}, {15}, {15}, {})

NotesRequests ==
    {Request("Monday",
             <<Client("c1", "A", <<"INS">>, <<>>), Client("c2", "A", <<"INS">>, <<>>),
               Client("c3", None, <<"INS">>, <<>>)>>,
             <<Therapist("t1", "BT", "A")>>, <<QuarterHours>>, <<>>, NoOther,
             Config(<<9, 0>>, <<10, 15>>)),
     Request("Monday",
             <<Client("c1", "A", <<>>,
                      [i \in 1..5 |-> Need("OT", IF i = 5 THEN {"Saturday"} ELSE {"Monday", "Saturday"},
                                          <<9, 15 * (i - 1)>>, <<9, 15 * i>>)])>>,
             <<Therapist("t1", "OT", "A")>>, <<>>, <<>>, NoOther,
             Config(<<9, 0>>, <<10, 15>>))}

(* a client whose weekly budget is used up, with a need of 30 minutes and  *)
(* a need of no length                                                     *)
ZeroBudgetRequests ==
    {Request("Monday",
             <<Client("c1", "A", <<"INS">>,
                      <<Need("OT", {"Monday"}, <<9, 0>>, <<9, 30>>),
                        Need("OT", {"Monday"}, <<10, 0>>, <<10, 0>>)>>)>>,
             <<Therapist("t1", "BT", "A"), Therapist("t2", "OT", "A")>>,
             <<Qualification("INS", {}, {20}, {50}, {<<1, 2>>})>>, <<>>,
             [c \in {"c1"} |-> 30], NormalLunch)}

(* a day of sixteen slots, 09:00-13:00, one therapist, and two clients    *)
(* whose callouts leave them 10 and 7 slots; every session is 90 minutes   *)
LongMorning == HoursConfig(<<9, 0>>, <<13, 0>>, <<10, 30>>, <<11, 0>>)

FairShareRequests ==
    {Request("Monday",
             <<Client("c1", "A", <<"INS">>, <<>>), Client("c2", "A", <<"INS">>, <<>>)>>,
             <<Therapist("t1", "BT", "A")>>,
             <<Qualification("INS", {}, {90}, {90}, {})>>,
             <<Callout("client", "c1", <<11, 30>>, <<13, 0>>),
               Callout("client", "c2", <<9, 0>>, <<11, 15>>)>>, NoOther, LongMorning)}

(* a client that requires X, which no therapist holds as a qualification:  *)
(* X has no rank, rank 2 or rank -2; the role Aide has no rank              *)
RankRequests ==
    {Request("Monday", <<Client("c1", None, <<"X">>, <<>>)>>,
             <<[Therapist("t1", "Aide", "A") EXCEPT !.qualifications = <<>>],
               [Therapist("t2", "RBT", "A") EXCEPT !.qualifications = <<>>],
               [Therapist("t3", "BT", "A") EXCEPT !.qualifications = <<>>]>>,
             <<[ShortSessions EXCEPT !.id = "X", !.roleHierarchyOrder = x]>>,
             <<>>, NoOther, ShortDay) : x \in {{}, {2}, {-2}}}

(* two callouts of one entity: overlapping ones of a therapist, identical  *)
(* ones of the client, and adjacent ones of a therapist                    *)
DoubleCalloutLists ==
    {<<Callout("therapist", "t1", <<9, 0>>, <<9, 30>>),
       Callout("therapist", "t1", <<9, 15>>, <<9, 45>>)>>,
     <<Callout("client", "c1", <<10, 30>>, <<10, 45>>),
       Callout("client", "c1", <<10, 30>>, <<10, 45>>)>>,
     <<Callout("therapist", "t1", <<9, 0>>, <<9, 15>>),
       Callout("therapist", "t1", <<9, 15>>, <<9, 30>>)>>}

DoubleCalloutRequests ==
    {Request("Monday", <<Client("c1", "A", <<"INS">>, <<>>)>>, TwoTherapists,
             <<ShortSessions>>, cos, NoOther, NormalLunch) : cos \in DoubleCalloutLists}

(* a client with two OT needs on the day and an OT as the only therapist,  *)
(* allowed one provider or two                                             *)
SingleOtRequests ==
    {Request("Monday",
             <<Client("c1", "A", <<"INS">>,
                      <<Need("OT", {"Monday"}, <<9, 0>>, <<9, 30>>),
                        Need("OT", {"Monday"}, <<10, 0>>, <<10, 30>>)>>)>>,
             <<Therapist("t1", "OT", "A")>>,
             <<Qualification("INS", {p}, {20}, {50}, {})>>, <<>>, NoOther, NormalLunch) :
        p \in {1, 2}}

(* two clients and two therapists, one client away for the whole day *)
BlockedClientRequests ==
    {Request("Monday",
             <<Client("c1", "A", <<"INS">>, <<>>), Client("c2", None, <<"INS">>, <<>>)>>,
             <<Therapist("t1", "BT", "A"), Therapist("t2", "BCBA", "B")>>,
             <<ShortSessions>>, <<Callout("client", "c2", <<9, 0>>, OpEnd)>>, NoOther,
             NormalLunch)}

(* two clients compete for two therapists: soft coverage only *)
TwoClientRequests ==
    {Request("Monday",
             <<Client("c1", "A", <<"INS">>, <<>>), Client("c2", None, <<"INS">>, <<>>)>>,
             <<Therapist("t1", "BT", "A"), Therapist("t2", "BCBA", "B")>>,
             <<ShortSessions>>, <<>>, NoOther, NormalLunch)}

(* a time string that is not HH:MM, such as "9am" *)
BadTime == <<"9am">>

(* no clients or no therapists, with callouts, with a schedule to start    *)
(* from, and with opening hours that are not HH:MM                         *)
EmptyRequests ==
    {Request("Monday", <<>>, TwoTherapists, <<>>, <<>>, NoOther, NormalLunch),
     Request("Monday", <<Client("c1", "A", <<"INS">>, <<>>)>>, <<>>, <<>>, <<>>, NoOther,
             NormalLunch),
     Request("Monday", <<>>, TwoTherapists, <<>>,
             <<Callout("therapist", "t1", <<9, 10>>, <<9, 25>>),
               Callout("client", "c1", BadTime, <<9, 25>>)>>, NoOther, NormalLunch),
     [Request("Monday", <<Client("c1", "A", <<"INS">>, <<>>)>>, <<>>, <<>>, <<>>, NoOther,
              NormalLunch)
        EXCEPT !.initialSchedule =
                 <<[clientId |-> "c1", therapistId |-> "t1", day |-> "Monday",
                    startTime |-> <<9, 0>>, endTime |-> <<10, 0>>, sessionType |-> "ABA"]>>],
     Request("Monday", <<>>, TwoTherapists, <<>>, <<>>, NoOther,
             HoursConfig(BadTime, <<10, 45>>, <<9, 30>>, <<10, 0>>))}

(* a callout and a need with a time that is not HH:MM, and needs that lie  *)
(* before opening and after closing                                        *)
MalformedRequests ==
    {Request("Monday", <<Client("c1", "A", <<"INS">>, <<>>)>>, TwoTherapists,
             <<ShortSessions>>, <<Callout("therapist", "t1", BadTime, <<9, 25>>)>>,
             NoOther, NormalLunch)}
    \cup
    {Request("Monday", <<Client("c1", "A", <<"INS">>, <<Need("OT", {"Monday"}, x[1], x[2])>>)>>,
             <<Therapist("t1", "BT", "A"), Therapist("t2", "OT", "A")>>,
             <<ShortSessions>>, <<>>, NoOther, NormalLunch) :
        x \in {<<BadTime, <<9, 30>>>>, <<<<8, 0>>, <<8, 30>>>>, <<<<10, 30>>, <<11, 0>>>>}}

Requests ==
    CalloutRequests \cup InsuranceRequests \cup LunchRequests \cup AfterHoursRequests
    \cup TeamRequests \cup WeekendRequests \cup UncoveredRequests \cup ScenarioRequests
    \cup AlliedRequests
    \cup NotesRequests \cup TwoClientRequests \cup EmptyRequests \cup MalformedRequests
    \cup RoundTripRequests \cup HintRequests \cup BlockedClientRequests
    \cup ZeroBudgetRequests \cup FairShareRequests \cup RankRequests
    \cup DoubleCalloutRequests \cup SingleOtRequests

----------------------------------------------------------------------------
(* The state machine *)

StartValues(M) == M.lunch_window_start..Max2(M.lunch_window_start, M.lunch_window_end)

LunchValues(M) ==
    {[active |-> FALSE, st |-> M.lunch_window_start]}
    \cup {[active |-> TRUE, st |-> s] : s \in StartValues(M)}

ChoiceValues(M) ==
    [DOMAIN M.ah_entries -> SUBSET (1..M.num_t)]

Init ==
    /\ req \in Requests
    /\ pc = "start"
    /\ hard_coverage = FALSE
    /\ model = <<>>
    /\ aba = {}
    /\ attempts = <<>>
    /\ solver_status = ""
    /\ resp = NoResponse
    /\ first_resp = NoResponse

(* build_and_solve, lines 107-124: the capacity test that gates the hard attempt *)
(* faulty variant: the hard attempt is made whatever the capacity *)
capacity_always(r) == TRUE

(* total_demand <= total_capacity, lines 120-124 *)
capacity_check(r) == num_c(r) * num_slots(r) <= num_t(r) * (num_slots(r) - LUNCH_SLOTS)

CapacityCheck ==
    /\ pc = "start"
    /\ ~config_raises(req)
    /\ hard_coverage' = capacity_check(req)
    /\ pc' = "build"
    /\ UNCHANGED <<first_resp, req, model, aba, attempts, solver_status, resp>>

(* build_and_solve, lines 110-111: time_to_minutes raises on the operating *)
(* hours and build_and_solve ends with the exception                       *)
HoursRaise ==
    /\ pc = "start"
    /\ config_raises(req)
    /\ pc' = "raised"
    /\ UNCHANGED <<first_resp, req, hard_coverage, model, aba, attempts, solver_status, resp>>

(* _solve_with_coverage_mode, lines 142-168: the empty problem *)
EmptyProblem ==
    /\ pc = "build"
    /\ num_c(req) = 0 \/ num_t(req) = 0
    /\ resp' = EmptyResponse(ModeName(hard_coverage))
    /\ pc' = "done"
    /\ attempts' = Append(attempts, hard_coverage)
    /\ UNCHANGED <<first_resp, req, hard_coverage, model, aba, solver_status>>

(* _solve_with_coverage_mode, lines 170-866: the model is built *)
(* The result of a failed hard attempt is dead once the soft call starts.  *)
Build ==
    /\ pc = "build"
    /\ ~(num_c(req) = 0 \/ num_t(req) = 0)
    /\ ~raises_value_error(req)
    /\ model' = BuildModel(req)
    /\ aba' = {}
    /\ attempts' = Append(attempts, hard_coverage)
    /\ resp' = NoResponse
    /\ solver_status' = ""
    /\ pc' = "search"
    /\ UNCHANGED <<first_resp, req, hard_coverage>>

(* lines 249-251 and 375-376: time_to_minutes raises, nothing catches it   *)
(* in solver.py, and build_and_solve ends with the exception               *)
BuildRaises ==
    /\ pc = "build"
    /\ ~(num_c(req) = 0 \/ num_t(req) = 0)
    /\ raises_value_error(req)
    /\ attempts' = Append(attempts, hard_coverage)
    /\ pc' = "raised"
    /\ UNCHANGED <<first_resp, req, hard_coverage, model, aba, solver_status, resp>>

(* solver.solve: the search switches one more ABA session on *)
SolverBranch ==
    /\ pc = "search"
    /\ \E ci \in 1..model.num_c : \E tl \in DOMAIN model.eligible_pairs[ci] :
       \E st \in 0..model.num_slots : \E dur \in 1..model.num_slots :
          LET k == Cardinality({a \in aba : a.ci = ci /\ a.tl = tl})
              a == [ci |-> ci, tl |-> tl, k |-> k, st |-> st, dur |-> dur]
          IN /\ k < model.sessions[ci]
             /\ SessionDomain(model, a)
             /\ Consistent(model, aba \cup {a})
             /\ CoverageReachable(model, aba \cup {a}, hard_coverage)
             /\ aba' = aba \cup {a}
    /\ UNCHANGED <<first_resp, req, pc, hard_coverage, model, attempts, solver_status, resp>>

(* solver.solve answers OPTIMAL or FEASIBLE, lines 871-953 *)
SolverFound ==
    /\ pc = "search"
    /\ \E ch \in ChoiceValues(model) :
          /\ ExactlyOneChosen(model, ch)
          /\ \E lu \in [1..model.num_t -> LunchValues(model)] :
                /\ Feasible(model, aba, ch, lu, hard_coverage)
                /\ \E is_optimal \in BOOLEAN :
                      /\ solver_status' = IF is_optimal THEN "OPTIMAL" ELSE "FEASIBLE"
                      /\ resp' = SuccessResponse(extract_schedule(req, model, aba, ch, lu),
                                                 is_optimal,
                                                 objective_value(model, aba, ch, hard_coverage),
                                                 ModeName(hard_coverage))
    /\ pc' = "done"
    /\ UNCHANGED <<first_resp, req, hard_coverage, model, aba, attempts>>

(* solver.solve answers without a solution, lines 877-882, and            *)
(* build_and_solve, lines 128-139: a failed hard attempt is retried soft  *)
(* INFEASIBLE when the engine has proved that no assignment exists,        *)
(* UNKNOWN when its 45 s ran out; which of the two is not decided here.    *)
SolverGaveUp ==
    /\ pc = "search"
    /\ \E status \in {"INFEASIBLE", "UNKNOWN"} :
          /\ solver_status' = status
          /\ IF hard_coverage
             THEN /\ resp' = FailureResponse(status, "hard")
                  /\ hard_coverage' = FALSE
                  /\ pc' = "build"
                  /\ aba' = {}
             ELSE /\ resp' = FailureResponse(status, "soft")
                  /\ pc' = "done"
                  /\ UNCHANGED <<hard_coverage, aba>>
    /\ UNCHANGED <<first_resp, req, model, attempts>>

(* main.py, lines 33-47: the caller posts the request again with the      *)
(* schedule it received as initialSchedule, and keeps the first response   *)
SolveAgain ==
    /\ pc = "done"
    /\ resp.success
    /\ first_resp = NoResponse
    /\ req \in RoundTripRequests
    /\ req' = [req EXCEPT !.initialSchedule = resp.schedule]
    /\ first_resp' = resp
    /\ pc' = "start"
    /\ hard_coverage' = FALSE
    /\ model' = <<>>
    /\ aba' = {}
    /\ attempts' = <<>>
    /\ solver_status' = ""
    /\ resp' = NoResponse

Next ==
    \/ CapacityCheck
    \/ HoursRaise
    \/ EmptyProblem
    \/ Build
    \/ BuildRaises
    \/ SolverBranch
    \/ SolverFound
    \/ SolverGaveUp
    \/ SolveAgain

Spec == Init /\ [][Next]_vars

----------------------------------------------------------------------------
(* Vocabulary of the properties: the response as a reader of it sees it *)

Succeeded == pc = "done" /\ resp.success

Sched == resp.schedule

StartMin(e) == time_to_minutes(e.startTime)

EndMin(e) == time_to_minutes(e.endTime)

Minutes(e) == EndMin(e) - StartMin(e)

EntriesOverlap(e, f) == StartMin(e) < EndMin(f) /\ StartMin(f) < EndMin(e)

IsBillable(e) == e.sessionType # "IndirectTime"

EntriesOfTherapist(id) == {i \in DOMAIN Sched : Sched[i].therapistId = id}

EntriesOfClient(id) == {i \in DOMAIN Sched : Sched[i].clientId = id}

AbaEntries == {i \in DOMAIN Sched : Sched[i].sessionType = "ABA"}

ClientIndex(id) == CHOOSE ci \in 1..num_c(req) : req.clients[ci].id = id

TherapistIndex(id) == CHOOSE ti \in 1..num_t(req) : req.therapists[ti].id = id

(* a clamped callout range <<s, e>> as minutes of the day *)
RangeOverlapsEntry(rg, e) ==
    /\ op_start(req) + rg[1] * SLOT_SIZE < EndMin(e)
    /\ StartMin(e) < op_start(req) + rg[2] * SLOT_SIZE

(* the slots of the operating grid an entry occupies *)
EntrySlots(e) ==
    {s \in 0..(num_slots(req) - 1) :
        StartMin(e) <= op_start(req) + s * SLOT_SIZE
        /\ op_start(req) + s * SLOT_SIZE < EndMin(e)}

SlotsOfRanges(rs) == {s \in 0..(num_slots(req) - 1) : \E i \in DOMAIN rs : rs[i][1] <= s /\ s < rs[i][2]}

----------------------------------------------------------------------------
(* the callouts of a therapist as the request states them *)
CalloutsOfTherapist(id) ==
    {i \in DOMAIN req.callouts :
        req.callouts[i].entityType = "therapist" /\ req.callouts[i].entityId = id}

CalloutOverlapsEntry(co, e) ==
    time_to_minutes(co.startTime) < EndMin(e) /\ StartMin(e) < time_to_minutes(co.endTime)

C2_ClientNoOverlap ==
    Succeeded =>
        \A ci \in 1..num_c(req) :
            \A i \in EntriesOfClient(req.clients[ci].id) :
                \A j \in EntriesOfClient(req.clients[ci].id) :
                    i # j => ~EntriesOverlap(Sched[i], Sched[j])

(* C3: in a successful response every ABA entry occupies only slots that   *)
(* are in no clamped callout range of its client or of its therapist.      *)
C3_AbaAvoidsCallouts ==
    Succeeded =>
        \A i \in AbaEntries :
            /\ EntrySlots(Sched[i])
                 \cap client_slot_blocked(req, ClientIndex(Sched[i].clientId)) = {}
            /\ EntrySlots(Sched[i])
                 \cap SlotsOfRanges(therapist_blocked(req, TherapistIndex(Sched[i].therapistId)))
                   = {}

C3_Witness ==
    /\ Succeeded
    /\ \E i \in AbaEntries :
          /\ client_slot_blocked(req, ClientIndex(Sched[i].clientId)) # {}
          /\ therapist_blocked(req, TherapistIndex(Sched[i].therapistId)) # <<>>

(* The insurance limits of a client as the properties name them: the     *)
(* values its requirements define, read off the request.                  *)
DefinedValues(ci, field) ==
    UNION {req.insuranceQualifications[j][field] :
             j \in {x \in DOMAIN req.insuranceQualifications :
                      req.insuranceQualifications[x].id
                        \in Range(req.clients[ci].insuranceRequirements)}}

Largest(S) == CHOOSE v \in S : \A w \in S : w <= v

Smallest(S) == CHOOSE v \in S : \A w \in S : v <= w

Positive(S) == {v \in S : v > 0}

(* C4 as stated: the length in minutes of every ABA entry lies between the *)
(* largest minSessionDurationMinutes of the client's requirements (default *)
(* 60) and the smallest maxSessionDurationMinutes (default 180), and is    *)
(* never zero.                                                             *)
C4_DurationWithinStatedBounds ==
    Succeeded =>
        \A i \in AbaEntries :
            LET ci == ClientIndex(Sched[i].clientId)
                mins == DefinedValues(ci, "minSessionDurationMinutes")
                maxs == DefinedValues(ci, "maxSessionDurationMinutes")
            IN /\ Minutes(Sched[i]) >= (IF mins = {} THEN 60 ELSE Largest(mins))
               /\ Minutes(Sched[i]) <= (IF maxs = {} THEN 180 ELSE Smallest(maxs))
               /\ Minutes(Sched[i]) # 0

(* C4 amended: the same with only the positive values counted; a value of  *)
(* zero or less is no limit and the default applies.                       *)
C4_DurationWithinBounds ==
    Succeeded =>
        \A i \in AbaEntries :
            LET ci == ClientIndex(Sched[i].clientId)
                mins == Positive(DefinedValues(ci, "minSessionDurationMinutes"))
                maxs == Positive(DefinedValues(ci, "maxSessionDurationMinutes"))
            IN /\ Minutes(Sched[i]) >= (IF mins = {} THEN 60 ELSE Largest(mins))
               /\ Minutes(Sched[i]) <= (IF maxs = {} THEN 180 ELSE Smallest(maxs))
               /\ Minutes(Sched[i]) # 0

C4_Witness ==
    /\ Succeeded
    /\ \E i \in AbaEntries :
          /\ DefinedValues(ClientIndex(Sched[i].clientId), "minSessionDurationMinutes") = {20}
          /\ Minutes(Sched[i]) = 30
    /\ \E i \in AbaEntries :
          /\ DefinedValues(ClientIndex(Sched[i].clientId), "maxSessionDurationMinutes") = {50}
          /\ Minutes(Sched[i]) = 45

(* C5: in a successful response, for every client whose requirements      *)
(* define maxTherapistsPerDay, the number of distinct therapists in the    *)
(* client's ABA and Allied Health entries is at most the smallest of them. *)
TherapistsServing(ci) ==
    {Sched[i].therapistId : i \in EntriesOfClient(req.clients[ci].id)} \ {None}

C5_MaxTherapistsPerDay ==
    Succeeded =>
        \A ci \in 1..num_c(req) :
            DefinedValues(ci, "maxTherapistsPerDay") # {} =>
                Cardinality(TherapistsServing(ci))
                    <= Smallest(DefinedValues(ci, "maxTherapistsPerDay"))

C5_Witness ==
    /\ Succeeded
    /\ \E ci \in 1..num_c(req) :
          /\ DefinedValues(ci, "maxTherapistsPerDay") = {1}
          /\ Len(eligible_pairs(req, ci)) >= 2
          /\ Cardinality(TherapistsServing(ci)) = 1
          /\ \E i \in EntriesOfClient(req.clients[ci].id) : Sched[i].sessionType = "ABA"

(* C6: in a successful response, for every client whose insurance defines *)
(* maxHoursPerWeek, the minutes of the client's entries of the day plus    *)
(* otherDayMinutesPerClient are at most maxHoursPerWeek x 60.              *)
ClientMinutes(ci) ==
    SumSeq([i \in DOMAIN Sched |->
               IF Sched[i].clientId = req.clients[ci].id THEN Minutes(Sched[i]) ELSE 0])

C6_WeeklyCap ==
    Succeeded =>
        \A ci \in 1..num_c(req) :
            \A h \in DefinedValues(ci, "maxHoursPerWeek") :
                (ClientMinutes(ci) + other_day_mins(req, ci)) * h[2] <= h[1] * 60

LunchesOf(id) ==
    {i \in EntriesOfTherapist(id) : Sched[i].sessionType = "IndirectTime"}

BillablesOf(id) == {i \in EntriesOfTherapist(id) : IsBillable(Sched[i])}

(* C7 as stated: in a successful response every therapist with an ABA or   *)
(* Allied Health entry has exactly one IndirectTime entry, which starts at *)
(* a time within [idealLunchWindowStart, idealLunchWindowEndForStart] and  *)
(* lasts exactly 30 minutes.                                               *)
C7_LunchInStatedWindow ==
    Succeeded =>
        \A ti \in 1..num_t(req) :
            BillablesOf(req.therapists[ti].id) # {} =>
                /\ Cardinality(LunchesOf(req.therapists[ti].id)) = 1
                /\ \A i \in LunchesOf(req.therapists[ti].id) :
                      /\ time_to_minutes(req.config.idealLunchWindowStart) <= StartMin(Sched[i])
                      /\ StartMin(Sched[i])
                           <= time_to_minutes(req.config.idealLunchWindowEndForStart)
                      /\ Minutes(Sched[i]) = 30

(* C7 amended: the one lunch lasts 30 minutes and starts on a slot of the  *)
(* window as the grid has it: from the slot that holds idealLunchWindowStart *)
(* (slot 0 when that is before opening) to the slot that holds             *)
(* idealLunchWindowEndForStart, at most num_slots - 2 and never before the *)
(* window's first slot.                                                    *)
WindowFirstSlot ==
    IF time_to_minutes(req.config.idealLunchWindowStart) <= op_start(req) THEN 0
    ELSE CHOOSE s \in 0..(24 * 4) :
            /\ op_start(req) + s * SLOT_SIZE <= time_to_minutes(req.config.idealLunchWindowStart)
            /\ time_to_minutes(req.config.idealLunchWindowStart)
                 < op_start(req) + (s + 1) * SLOT_SIZE

WindowLastSlot ==
    LET fits == {s \in 0..(num_slots(req) - 2) :
                    op_start(req) + s * SLOT_SIZE
                      <= time_to_minutes(req.config.idealLunchWindowEndForStart)}
    IN IF fits = {} \/ Largest(fits) < WindowFirstSlot
       THEN WindowFirstSlot ELSE Largest(fits)

C7_LunchInSlotWindow ==
    Succeeded =>
        \A ti \in 1..num_t(req) :
            BillablesOf(req.therapists[ti].id) # {} =>
                /\ Cardinality(LunchesOf(req.therapists[ti].id)) = 1
                /\ \A i \in LunchesOf(req.therapists[ti].id) :
                      /\ \E s \in WindowFirstSlot..WindowLastSlot :
                            StartMin(Sched[i]) = op_start(req) + s * SLOT_SIZE
                      /\ Minutes(Sched[i]) = 30

C7_Witness ==
    /\ Succeeded
    /\ \E ti \in 1..num_t(req) :
          /\ \E i \in BillablesOf(req.therapists[ti].id) : Sched[i].sessionType = "ABA"
          /\ \E i \in LunchesOf(req.therapists[ti].id) :
                StartMin(Sched[i]) < time_to_minutes(req.config.idealLunchWindowStart)

(* C8: in a successful response a therapist with no ABA and no Allied      *)
(* Health entry has no IndirectTime entry, and one with such an entry has  *)
(* an IndirectTime entry.                                                  *)
C8_NoLunchWithoutWork ==
    Succeeded =>
        \A ti \in 1..num_t(req) :
            (BillablesOf(req.therapists[ti].id) = {}) = (LunchesOf(req.therapists[ti].id) = {})

C8_Witness ==
    /\ Succeeded
    /\ \E ti \in 1..num_t(req) : EntriesOfTherapist(req.therapists[ti].id) = {}
    /\ \E ti \in 1..num_t(req) : LunchesOf(req.therapists[ti].id) # {}

(* C9: in a successful response no therapist has more than 4 billable     *)
(* entries, ABA and Allied Health counted together.                        *)
C9_MaxFourBillable ==
    Succeeded =>
        \A ti \in 1..num_t(req) : Cardinality(BillablesOf(req.therapists[ti].id)) <= 4

C9_Witness ==
    /\ Succeeded
    /\ \E ti \in 1..num_t(req) :
          /\ Cardinality(BillablesOf(req.therapists[ti].id)) = 4
          /\ \E i \in BillablesOf(req.therapists[ti].id) : Sched[i].sessionType = "ABA"

(* C10: in a successful response a (client, therapist) pair has at most 2 *)
(* ABA entries, and of two the later starts at least one 15-minute slot    *)
(* after the earlier ends.                                                 *)
PairEntries(ci, ti) ==
    {i \in AbaEntries : /\ Sched[i].clientId = req.clients[ci].id
                        /\ Sched[i].therapistId = req.therapists[ti].id}

C10_PairSessionsApart ==
    Succeeded =>
        \A ci \in 1..num_c(req) : \A ti \in 1..num_t(req) :
            /\ Cardinality(PairEntries(ci, ti)) <= 2
            /\ \A i \in PairEntries(ci, ti) : \A j \in PairEntries(ci, ti) :
                  (i # j /\ StartMin(Sched[i]) <= StartMin(Sched[j])) =>
                      StartMin(Sched[j]) >= EndMin(Sched[i]) + 15

C10_Witness ==
    /\ Succeeded
    /\ \E ci \in 1..num_c(req) : \E ti \in 1..num_t(req) :
          /\ Cardinality(PairEntries(ci, ti)) = 2
          /\ \E i \in PairEntries(ci, ti) : \E j \in PairEntries(ci, ti) :
                StartMin(Sched[j]) = EndMin(Sched[i]) + 15

(* C11: in a successful response no ABA entry pairs a BT with a client     *)
(* that has a team other than the BT's own (a BT without a team is on no   *)
(* client's team); a client without a team may have any BT.                *)
C11_NoCrossTeamBT ==
    Succeeded =>
        \A i \in AbaEntries :
            LET t == req.therapists[TherapistIndex(Sched[i].therapistId)]
                c == req.clients[ClientIndex(Sched[i].clientId)]
            IN (t.role = "BT" /\ c.teamId # None) => t.teamId = c.teamId

C11_Witness ==
    /\ Succeeded
    /\ \E ci \in 1..num_c(req) :
          /\ req.clients[ci].teamId # None
          /\ \E ti \in 1..num_t(req) :
                /\ req.therapists[ti].role = "BT"
                /\ req.therapists[ti].teamId \notin {None, req.clients[ci].teamId}
          /\ \E ti \in 1..num_t(req) :
                req.therapists[ti].role = "BT" /\ req.therapists[ti].teamId = None
          /\ \E i \in AbaEntries : Sched[i].clientId = req.clients[ci].id

(* C12: when the day is Saturday or Sunday no response holds an entry of   *)
(* session type ABA.                                                       *)
C12_NoAbaOnWeekend ==
    req.day \in {"Saturday", "Sunday"} =>
        \A i \in DOMAIN resp.schedule : resp.schedule[i].sessionType # "ABA"

C12_Witness ==
    /\ Succeeded
    /\ req.day \in {"Saturday", "Sunday"}
    /\ \E ci \in 1..num_c(req) : eligible_pairs(req, ci) # <<>>
    /\ Sched # <<>>

(* the attempts made so far: TRUE a hard-coverage solve, FALSE a soft one *)
HardTried == \E i \in DOMAIN attempts : attempts[i]

SoftTried == \E i \in DOMAIN attempts : ~attempts[i]

DemandFitsCapacity ==
    Len(req.clients) * num_slots(req) <= Len(req.therapists) * (num_slots(req) - 2)

C13_Order ==
    /\ attempts \in {<<>>, <<TRUE>>, <<FALSE>>, <<TRUE, FALSE>>}
    /\ attempts # <<>> => (attempts[1] <=> DemandFitsCapacity)
    /\ pc = "done" =>
          /\ attempts # <<>>
          /\ ~SoftTried => resp.success
          /\ resp.coverageMode = (IF HardTried /\ ~SoftTried THEN "hard" ELSE "soft")

C13_SoftOnlyAfterFailedHard ==
    (HardTried /\ ~SoftTried /\ attempts' = Append(attempts, FALSE)) =>
        (~resp.success /\ resp.coverageMode = "hard" /\ resp.statusMessage # "")

(* C13: the hard model is solved first exactly when num_clients x          *)
(* num_slots <= num_therapists x (num_slots - 2); the soft model is solved *)
(* exactly when the hard attempt was skipped or returned success = false;  *)
(* each is solved at most once and never soft before hard; the returned    *)
(* coverageMode is "hard" exactly when the hard attempt succeeded.         *)
C13_HardThenSoft == []C13_Order /\ [][C13_SoftOnlyAfterFailedHard]_vars

C13_Witness ==
    /\ pc = "done"
    /\ attempts = <<TRUE, FALSE>>
    /\ resp.success
    /\ resp.schedule # <<>>

(* the slots a client is available for ABA: the day less the slots its     *)
(* callouts block and less the lengths of its materialized needs           *)
Avail(ci) ==
    num_slots(req) - Cardinality(client_slot_blocked(req, ci))
    - SumFn([i \in {j \in DOMAIN ah_entries(req) : ah_entries(req)[j].ci = ci} |->
               ah_entries(req)[i].length])

AbaMinutes(ci) ==
    SumFn([i \in {j \in AbaEntries : Sched[j].clientId = req.clients[ci].id} |->
             Minutes(Sched[i])])

Weekday == req.day \notin {"Saturday", "Sunday"}

(* C14: in a successful response of coverage mode "hard" on a weekday the  *)
(* ABA entries of every client with avail_c > 0 add up to avail_c slots,   *)
(* clients without an eligible therapist or weekly budget included.        *)
C14_HardCoversAvailability ==
    (Succeeded /\ resp.coverageMode = "hard" /\ Weekday) =>
        \A ci \in 1..num_c(req) :
            Avail(ci) > 0 => AbaMinutes(ci) = Avail(ci) * 15

(* C15: scenario S3 ends with a schedule of the hard phase in which the    *)
(* client has 30 slots of ABA in at most 2 sessions.                       *)
C15_S3FullDayHard ==
    (req = S3Request /\ pc = "done") =>
        /\ resp.success
        /\ resp.coverageMode = "hard"
        /\ AbaMinutes(1) = 30 * 15
        /\ Cardinality(AbaEntries) <= 2

(* C15, what the code does: scenario S3 skips the hard phase (32 > 30) and *)
(* its soft model has no solution, as it demands 25 slots of two sessions  *)
(* of at most 12.                                                          *)
C15_S3NeverSucceeds ==
    req = S3Request => (~Succeeded /\ ~HardTried)

(* C16: scenario S6 ends with a schedule of the soft phase, a positive     *)
(* objective value, and every client at zero ABA or at least the minimum   *)
(* session duration of 60 minutes.                                         *)
C16_S6SoftSchedule ==
    (req = S6Request /\ pc = "done") =>
        /\ resp.success
        /\ resp.coverageMode = "soft"
        /\ \E v \in resp.objectiveValue : v > 0
        /\ \A ci \in 1..num_c(req) : AbaMinutes(ci) = 0 \/ AbaMinutes(ci) >= 60

(* C16, what the code does: the soft model of S6 demands 4 slots for each  *)
(* of the ten clients from a therapist capped at 4 notes; no solution.     *)
C16_S6NeverSucceeds ==
    req = S6Request => ~Succeeded

(* C17: scenario S5 ends with a schedule in which exactly one of the three *)
(* BTs appears in the client's ABA entries.                                *)
C17_S5OneProvider ==
    (req = S5Request /\ pc = "done") =>
        /\ resp.success
        /\ Cardinality({Sched[i].therapistId : i \in AbaEntries}) = 1

(* C17, what the code does: one provider gives at most 2 sessions of 12    *)
(* slots, the hard model demands 32 and the soft model 27; no solution.    *)
C17_S5NeverSucceeds ==
    req = S5Request => ~Succeeded

EmptyInput == num_c(req) = 0 \/ num_t(req) = 0

NothingBuilt == model = <<>> /\ aba = {} /\ solver_status = "" /\ pc # "search"

EmptyAnswer ==
    /\ pc # "raised"
    /\ NothingBuilt
    /\ pc = "done" =>
          /\ resp.success
          /\ resp.schedule = <<>>
          /\ resp.statusMessage = "No clients or therapists to schedule."

(* C18, as stated: a request without clients or without therapists is      *)
(* answered success=true, empty schedule, "No clients or therapists to     *)
(* schedule.", no model built and no solver run, whatever the other inputs *)
(* are.                                                                    *)
C18_EmptyProblemAnyInput == EmptyInput => EmptyAnswer

(* C18, amended: the same, for requests whose operating hours are HH:MM;   *)
(* callouts, malformed ones too, and an initial schedule do not matter.    *)
C18_EmptyProblem == (EmptyInput /\ ~config_raises(req)) => EmptyAnswer

C18_Witness ==
    /\ pc = "done"
    /\ num_c(req) = 0
    /\ \E i \in DOMAIN req.callouts : ~parses(req.callouts[i].startTime)
    /\ resp.success

(* C19: when the soft attempt ends with a solver status other than OPTIMAL *)
(* or FEASIBLE the response is success=false, empty schedule, objective    *)
(* value null, coverageMode "soft", and a status message that names the    *)
(* solver's status.                                                        *)
C19_SoftFailureResponse ==
    (pc = "done" /\ solver_status \notin {"", "OPTIMAL", "FEASIBLE"}) =>
        /\ ~hard_coverage
        /\ ~resp.success
        /\ resp.schedule = <<>>
        /\ resp.objectiveValue = {}
        /\ resp.coverageMode = "soft"
        /\ \/ solver_status = "INFEASIBLE"
              /\ resp.statusMessage = "Solver returned INFEASIBLE. No feasible schedule found."
           \/ solver_status = "UNKNOWN"
              /\ resp.statusMessage = "Solver returned UNKNOWN. No feasible schedule found."

C19_Witness ==
    /\ pc = "done"
    /\ attempts = <<TRUE, FALSE>>
    /\ solver_status = "UNKNOWN"
    /\ ~resp.success

callout_malformed(co) == ~parses(co.startTime) \/ ~parses(co.endTime)

callout_off_grid(r, co) ==
    ~callout_malformed(co) /\ callout_range(r, co)[2] <= callout_range(r, co)[1]

need_of_day(r, need) ==
    r.day \in need.specificDays /\ need.startTime # <<>> /\ need.endTime # <<>>

need_malformed(r, need) ==
    need_of_day(r, need) /\ (~parses(need.startTime) \/ ~parses(need.endTime))

need_off_grid(r, need) ==
    /\ need_of_day(r, need) /\ ~need_malformed(r, need)
    /\ \/ need_start_slot(r, need) < 0
       \/ need_start_slot(r, need) + need_length(need) > num_slots(r)

HasMalformed(r) ==
    \/ \E i \in DOMAIN r.callouts : callout_malformed(r.callouts[i])
    \/ \E ci \in 1..num_c(r) : \E n \in DOMAIN r.clients[ci].alliedHealthNeeds :
          need_malformed(r, r.clients[ci].alliedHealthNeeds[n])

HasOffGrid(r) ==
    \/ \E i \in DOMAIN r.callouts : callout_off_grid(r, r.callouts[i])
    \/ \E ci \in 1..num_c(r) : \E n \in DOMAIN r.clients[ci].alliedHealthNeeds :
          need_off_grid(r, r.clients[ci].alliedHealthNeeds[n])

(* the request without its malformed and off-grid callouts and needs *)
Cleaned(r) ==
    LET KeepCallout(co) == ~callout_malformed(co) /\ ~callout_off_grid(r, co)
        KeepNeed(need) == ~need_malformed(r, need) /\ ~need_off_grid(r, need)
    IN [r EXCEPT !.callouts = SelectSeq(r.callouts, KeepCallout),
                 !.clients = [ci \in DOMAIN r.clients |->
                                [r.clients[ci] EXCEPT !.alliedHealthNeeds =
                                    SelectSeq(r.clients[ci].alliedHealthNeeds, KeepNeed)]]]

(* the model, and with it every response, is that of the cleaned request *)
SolvedAsCleaned == model # <<>> => model = BuildModel(Cleaned(req))

(* C20: a callout or need with a time that is not HH:MM, or with a slot    *)
(* range outside the grid, is dropped: no exception is raised and the      *)
(* response is the one of the request without it.                          *)
C20_MalformedDropped ==
    (~config_raises(req) /\ (HasMalformed(req) \/ HasOffGrid(req))) =>
        (pc # "raised" /\ SolvedAsCleaned)

(* C20, the part the code keeps: callouts and needs outside the grid are   *)
(* dropped.                                                                *)
C20_OffGridDropped ==
    (~config_raises(req) /\ ~HasMalformed(req) /\ HasOffGrid(req)) =>
        (pc # "raised" /\ SolvedAsCleaned)

C20_OffGridWitness ==
    /\ Succeeded
    /\ \E ci \in 1..num_c(req) : \E n \in DOMAIN req.clients[ci].alliedHealthNeeds :
          need_off_grid(req, req.clients[ci].alliedHealthNeeds[n])

ObjectiveOf(response) == CHOOSE v \in response.objectiveValue : TRUE

SolvedAgain == pc = "done" /\ first_resp # NoResponse

HintedVars == {model.hints[i].var : i \in DOMAIN model.hints}

TimesHinted(var) == Cardinality({i \in DOMAIN model.hints : model.hints[i].var = var})

(* C29: whatever the initialSchedule, every solver variable gets at most   *)
(* one hint: at most MAX_SESSIONS_PER_PAIR entries of a pair are hinted    *)
(* active, on session indices 0 and 1, every other session is hinted       *)
(* inactive once, and each therapist's lunch variables are hinted at most  *)
(* once.                                                                   *)
C29_OneHintPerVariable ==
    model # <<>> =>
        /\ \A var \in HintedVars : TimesHinted(var) = 1
        /\ \A var \in HintedVars :
              var[1] \in {"aba_active", "aba_start", "aba_duration"} =>
                  var[4] < MAX_SESSIONS_PER_PAIR

(* C29, the part the code keeps: the variables of ABA sessions are hinted  *)
(* once, and once every session has its active variable hinted.            *)
C29_OneHintPerSessionVariable ==
    (model # <<>> /\ model.hints # <<>>) =>
        /\ \A var \in HintedVars : var[1] \notin {"lunch_active", "lunch_start"} =>
              TimesHinted(var) = 1 /\ var[4] < MAX_SESSIONS_PER_PAIR
        /\ \A ci \in 1..model.num_c : \A tl \in DOMAIN model.eligible_pairs[ci] :
              \A k \in 0..(model.sessions[ci] - 1) :
                  TimesHinted(<<"aba_active", ci, tl, k>>) = 1

C29_SessionHintsWitness ==
    /\ Succeeded
    /\ model # <<>>
    /\ TimesHinted(<<"aba_active", 1, 1, 1>>) = 1
    /\ \E i \in DOMAIN model.hints :
          model.hints[i] = Hint(<<"aba_active", 1, 1, 1>>, 1)
    /\ Len(SelectSeq(req.initialSchedule, LAMBDA e : e.sessionType = "ABA")) = 3

(* the Allied Health entries of the response, in their order *)
AhOfSched == SelectSeq(Sched, LAMBDA e : e.sessionType \notin {"ABA", "IndirectTime"})

HasRole(r, role) == \E ti \in 1..num_t(r) : r.therapists[ti].role = role

NeedTypeOf(ah) == IF ah.session_type = "AlliedHealth_OT" THEN "OT" ELSE "SLP"

C23_CapacityTestNecessary ==
    (Succeeded /\ model # <<>> /\ Coverage(model, aba, TRUE)) =>
        num_c(req) * num_slots(req) <= num_t(req) * (num_slots(req) - 2)

(* C23, what the code does: the schedule of such a request is found by the *)
(* soft attempt alone, the hard attempt is never made.                     *)
C23_HardSkipped ==
    req \in BlockedClientRequests => (~HardTried /\ hard_coverage = FALSE)

C23_HardSkippedWitness ==
    /\ req \in BlockedClientRequests
    /\ Succeeded
    /\ Coverage(model, aba, TRUE)
    /\ resp.coverageMode = "soft"

(* remaining_weekly_slots <= 0: the weekly maximum less the minutes of the *)
(* other days is below one slot                                            *)
ZeroBudget(ci) ==
    get_max_weekly_minutes(req.clients[ci], req.insuranceQualifications)
    - other_day_mins(req, ci) < SLOT_SIZE

(* the needs of a client that fall on the day, inside the operating hours, *)
(* with a positive length                                                  *)
PositiveNeedsToday(ci) ==
    {n \in DOMAIN req.clients[ci].alliedHealthNeeds :
        LET need == req.clients[ci].alliedHealthNeeds[n]
        IN /\ req.day \in need.specificDays
           /\ time_to_minutes(need.startTime) >= op_start(req)
           /\ time_to_minutes(need.endTime) <= op_end(req)
           /\ time_to_minutes(need.endTime) > time_to_minutes(need.startTime)}

AhEntriesOfClient(ci) ==
    {i \in EntriesOfClient(req.clients[ci].id) :
        Sched[i].sessionType \notin {"ABA", "IndirectTime"}}

(* C24, as stated: a client without weekly budget gets no ABA entry, while *)
(* its needs of positive length on the day, inside the operating hours,    *)
(* are still emitted.                                                      *)
C24_ZeroBudgetKeepsAlliedHealth ==
    (Succeeded /\ model # <<>>) =>
        \A ci \in 1..num_c(req) : ZeroBudget(ci) =>
            /\ \A i \in AbaEntries : Sched[i].clientId # req.clients[ci].id
            /\ \A n \in PositiveNeedsToday(ci) :
                  \E i \in AhEntriesOfClient(ci) :
                      /\ Sched[i].startTime = req.clients[ci].alliedHealthNeeds[n].startTime
                      /\ Sched[i].endTime = req.clients[ci].alliedHealthNeeds[n].endTime

(* C24, amended: a client without weekly budget gets no ABA entry and no   *)
(* Allied Health entry of positive length either; the weekly test leaves   *)
(* it only needs that end where they start.                                *)
C24_ZeroBudgetNoMinutes ==
    (Succeeded /\ model # <<>>) =>
        \A ci \in 1..num_c(req) : ZeroBudget(ci) =>
            /\ \A i \in AbaEntries : Sched[i].clientId # req.clients[ci].id
            /\ \A i \in AhEntriesOfClient(ci) : Minutes(Sched[i]) <= 0

C24_Witness ==
    /\ Succeeded
    /\ model # <<>>
    /\ ZeroBudget(1)
    /\ PositiveNeedsToday(1) # {}
    /\ eligible_pairs(req, 1) # <<>>
    /\ \E i \in AhEntriesOfClient(1) : Minutes(Sched[i]) = 0 /\ Sched[i].therapistId = "t2"

LunchEntries == {i \in DOMAIN Sched : Sched[i].sessionType = "IndirectTime"}

LunchesAt(minute) ==
    {i \in LunchEntries : StartMin(Sched[i]) <= minute /\ minute < EndMin(Sched[i])}

(* C25: in a successful response, at every slot, the therapists at lunch   *)
(* are at most max(1, floor(num_therapists / 4)).  A slot in which the     *)
(* count is highest starts with the start of one of the lunches.           *)
C25_LunchesStaggered ==
    Succeeded =>
        \A i \in LunchEntries :
            Cardinality(LunchesAt(StartMin(Sched[i]))) <= Max2(1, num_t(req) \div 4)

C25_Witness ==
    /\ Succeeded
    /\ \E i \in LunchEntries : \E j \in LunchEntries :
          /\ Sched[i].therapistId # Sched[j].therapistId
          /\ EndMin(Sched[i]) = StartMin(Sched[j])

SoftSuccess == Succeeded /\ model # <<>> /\ resp.coverageMode = "soft" /\ Weekday

Covered(ci) == client_available(model, ci) > 0 /\ HasAbaVars(model, ci)

(* floor(avail x capacity_ratio x 0.85) *)
FloorShare(ci) ==
    IF total_client_available(model) > 0
       /\ total_therapist_capacity(model) < total_client_available(model)
    THEN (client_available(model, ci) * total_therapist_capacity(model) * 85)
            \div (total_client_available(model) * 100)
    ELSE (client_available(model, ci) * 85) \div 100

MinCov(ci) ==
    Min2(client_available(model, ci),
         Min2(model.remaining_weekly_slots[ci],
              Max2(model.min_dur_slots[ci], FloorShare(ci))))

(* C26: in a successful soft response on a weekday, every client with      *)
(* available slots and an ABA variable has a total ABA duration D with     *)
(* min_cov <= D <= avail, min_cov = min(avail, remaining weekly slots,     *)
(* max(min_dur_slots, floor(avail x capacity_ratio x 0.85))).              *)
C26_FairShareFloor ==
    SoftSuccess =>
        \A ci \in 1..num_c(req) : Covered(ci) =>
            /\ MinCov(ci) * SLOT_SIZE <= AbaMinutes(ci)
            /\ AbaMinutes(ci) <= client_available(model, ci) * SLOT_SIZE

(* C26, as computed: the same bounds with the minimum that line 697        *)
(* computes in double precision.                                           *)
C26_FairShareComputed ==
    SoftSuccess =>
        \A ci \in 1..num_c(req) : Covered(ci) =>
            /\ min_coverage(model, ci) * SLOT_SIZE <= AbaMinutes(ci)
            /\ AbaMinutes(ci) <= client_available(model, ci) * SLOT_SIZE

C26_ComputedWitness ==
    /\ SoftSuccess
    /\ \E ci \in 1..num_c(req) :
          /\ Covered(ci)
          /\ min_coverage(model, ci) > model.min_dur_slots[ci]
          /\ AbaMinutes(ci) = min_coverage(model, ci) * SLOT_SIZE
          /\ AbaMinutes(ci) < client_available(model, ci) * SLOT_SIZE

RankOfRequirement(req_id) ==
    get_role_rank(req_id, req.insuranceQualifications, req.config.defaultRoleRank)

(* rank(t.role) >= rank(r) with both ranks different from -1 *)
StatedSubsumes(ti, req_id) ==
    /\ Rank(req, ti) >= RankOfRequirement(req_id)
    /\ Rank(req, ti) # -1
    /\ RankOfRequirement(req_id) # -1

(* the subsumption test as solver.py:53 makes it *)
ComputedSubsumes(ti, req_id) ==
    /\ Rank(req, ti) >= RankOfRequirement(req_id)
    /\ RankOfRequirement(req_id) # -1

CalloutSlots(ti) == SumSeq(RangeLengths(therapist_blocked(req, ti)))

StatedEligible(ci, ti, stated) ==
    /\ req.therapists[ti].role \notin {"OT", "SLP"}
    /\ CalloutSlots(ti) < num_slots(req)
    /\ Tier(req, ci, ti) # 99
    /\ \A i \in DOMAIN req.clients[ci].insuranceRequirements :
          LET r == req.clients[ci].insuranceRequirements[i]
          IN \/ r \in Range(req.therapists[ti].qualifications)
             \/ IF stated THEN StatedSubsumes(ti, r) ELSE ComputedSubsumes(ti, r)
             \/ req.therapists[ti].role = r

EligibleOrdered(ci) ==
    LET ep == model.eligible_pairs[ci]
    IN /\ Len(model.team_tier_map[ci]) = Len(ep)
       /\ \A i \in DOMAIN ep : model.team_tier_map[ci][i] = Tier(req, ci, ep[i])
       /\ \A i \in DOMAIN ep : \A j \in DOMAIN ep :
             i < j =>
                /\ ep[i] # ep[j]
                /\ \/ Tier(req, ci, ep[i]) < Tier(req, ci, ep[j])
                   \/ /\ Tier(req, ci, ep[i]) = Tier(req, ci, ep[j])
                      /\ Rank(req, ep[i]) <= Rank(req, ep[j])

(* C27: therapist t is in eligible[c] exactly if its role is neither OT    *)
(* nor SLP, its callout ranges sum to less than num_slots, its tier is not *)
(* the excluded one, and every requirement r of c is a qualification of t, *)
(* or rank(t.role) >= rank(r) with both ranks different from -1, or is the *)
(* role of t; eligible[c] is ordered by tier, then role rank, and the tier *)
(* list is parallel to it.                                                 *)
C27_EligibilityAsStated ==
    model # <<>> =>
        \A ci \in 1..num_c(req) :
            /\ Range(model.eligible_pairs[ci])
                 = {ti \in 1..num_t(req) : StatedEligible(ci, ti, TRUE)}
            /\ EligibleOrdered(ci)

(* C27, as computed: the same with the rank test of solver.py:53, which    *)
(* asks only the rank of the requirement to differ from -1.                *)
C27_EligibilityAsComputed ==
    model # <<>> =>
        \A ci \in 1..num_c(req) :
            /\ Range(model.eligible_pairs[ci])
                 = {ti \in 1..num_t(req) : StatedEligible(ci, ti, FALSE)}
            /\ EligibleOrdered(ci)

C27_UnknownRoleEligible ==
    /\ Succeeded
    /\ \E i \in AbaEntries :
          LET ti == TherapistIndex(Sched[i].therapistId)
          IN /\ Rank(req, ti) = -1
             /\ ~StatedEligible(ClientIndex(Sched[i].clientId), ti, TRUE)

RangesOverlap(rs) ==
    \E i \in DOMAIN rs : \E j \in DOMAIN rs :
        i # j /\ rs[i][1] < rs[j][2] /\ rs[j][1] < rs[i][2]

OverlappingCallouts ==
    /\ model # <<>>
    /\ \/ \E ti \in 1..model.num_t : RangesOverlap(model.therapist_blocked[ti])
       \/ \E ci \in 1..model.num_c : RangesOverlap(model.client_blocked[ci])

(* C28: the callouts of one entity never make the day unsolvable by        *)
(* themselves: the blackout intervals that the model holds fixed for a     *)
(* therapist or a client satisfy the no-overlap constraint they are put in.*)
C28_CalloutsAloneSatisfiable ==
    model # <<>> =>
        /\ \A ti \in 1..model.num_t : NoOverlap(CalloutIntervals(model.therapist_blocked[ti]))
        /\ \A ci \in 1..model.num_c : NoOverlap(CalloutIntervals(model.client_blocked[ci]))

(* C28, what the code does: a request with two overlapping or identical    *)
(* callouts of one entity never ends with a schedule.                      *)
C28_OverlapNeverSucceeds ==
    OverlappingCallouts => ~Succeeded

C28_OverlapFailsWitness ==
    /\ OverlappingCallouts
    /\ pc = "done"
    /\ ~resp.success
    /\ solver_status = "INFEASIBLE"

(* two adjacent callouts of one therapist leave the day solvable *)
C28_AdjacentWitness ==
    /\ Succeeded
    /\ req \in DoubleCalloutRequests
    /\ \E i \in AbaEntries : Sched[i].therapistId = "t1"

Capped(ci) == model.max_p[ci] < NO_MAX_PROVIDERS /\ ProviderVars(model, ci) > 0

(* C30: the max-providers constraint counts each distinct therapist once   *)
(* per client: among the provider variables summed for a client that has a *)
(* cap, no two stand for the same therapist.                               *)
C30_EachTherapistCountedOnce ==
    model # <<>> =>
        \A ci \in 1..model.num_c : Capped(ci) =>
            \A y \in AhOnlyProviders(model, ci) : \A z \in AhOnlyProviders(model, ci) :
                y[2] = z[2] => y = z

OneOtTwoNeeds ==
    /\ req \in SingleOtRequests
    /\ model # <<>>
    /\ model.max_p[1] = 1

(* C30, what the code does: with maxTherapistsPerDay = 1 the two needs of  *)
(* the client are never both given to the single OT; the request has no    *)
(* schedule.                                                               *)
C30_SingleOtNeverSucceeds ==
    OneOtTwoNeeds => ~Succeeded

C30_SingleOtFailsWitness ==
    /\ OneOtTwoNeeds
    /\ Cardinality(AhOnlyProviders(model, 1)) = 2
    /\ pc = "done"
    /\ ~resp.success
    /\ solver_status = "INFEASIBLE"

(* with maxTherapistsPerDay = 2 the same OT serves both needs *)
C30_TwoAllowedWitness ==
    /\ Succeeded
    /\ req \in SingleOtRequests
    /\ Cardinality({i \in DOMAIN Sched : /\ Sched[i].sessionType = "AlliedHealth_OT"
                                         /\ Sched[i].therapistId = "t1"}) = 2

====
